---- MODULE Spec2Model ----
(***************************************************************************)
(* Consent-gated differential-privacy query engine (mypriv360).            *)
(*                                                                         *)
(* The store (Prisma) is modelled by its tables: consent_tokens,           *)
(* consent_policies, rate_limit_buckets.  Date.now() is the variable now,  *)
(* in milliseconds.  Every route handler is one action; the rate limiter   *)
(* is also modelled statement by statement (SpecRL) for the interleavings  *)
(* of concurrent callers.                                                  *)
(***************************************************************************)
EXTENDS Integers, Sequences, FiniteSets, TLC

VARIABLES
    now,               \* Date.now(), milliseconds
    consentTokens,     \* table consent_tokens: sequence of rows, id = index
    consentPolicies,   \* table consent_policies: set of rows
    rateLimitBuckets,  \* table rate_limit_buckets: set of rows
    signed,            \* every token string signed so far, with how it was minted
    withdrawn,         \* history: <<user, category, purpose>> whose policy was once REVOKED/RESTRICTED/deleted
    resp,              \* response of the request handled by the last step (NoResp otherwise)
    ret,               \* what the function called directly by the last step returned or threw (NoRet otherwise)
    rlLog,             \* history of the serial checkRateLimit calls
    calls              \* SpecRL: the in-flight checkRateLimit call of every caller

vars == <<now, consentTokens, consentPolicies, rateLimitBuckets, signed,
          withdrawn, resp, ret, rlLog, calls>>

----------------------------------------------------------------------------
(* Bounds of the model *)

MaxTokens == 2      \* rows of consent_tokens
MaxPolicies == 2    \* rows of consent_policies
MaxMinted == 1      \* tokens minted by the dashboard action
Requests == 2       \* the request ceiling of the endpoint, scaled down
ExtraCalls == 2     \* serial checkRateLimit calls beyond the ceiling

(* Program constants *)

WindowMs == 60000   \* RATE_LIMIT_CONFIG['/api/pdp/query'].windowMs
MsPerSec == 1000
SecPerMin == 60

----------------------------------------------------------------------------
(* Values *)

Null == <<>>
Some(x) == <<x>>

Users == {"alice"}
Categories == {"health", "location"}          \* the data_categories catalog
Purposes == {"research", "marketing"}
Statuses == {"GRANTED", "RESTRICTED", "REVOKED"}
Endpoint == "/api/pdp/query"
ApiKeys == {"key1"}                            \* api_clients.apiKey

(* A scope name is text; text is a sequence of fragments so that          *)
(* String.prototype.includes can be computed on it.                        *)
read == <<"read">>
aggregate == <<"aggregate">>
readVitals == <<"read", ":health:vitals">>     \* "read:health:vitals" (README)

RequiredScopes == <<read, aggregate>>

ScopeLists == { <<read, aggregate>>, <<read>>, <<readVitals, aggregate>> }

RECURSIVE Concat(_)
Concat(ss) ==
    IF ss = <<>> THEN <<>>
    ELSE IF Len(ss) = 1 THEN ss[1]
    ELSE Concat(SubSeq(ss, 1, Len(ss) \div 2))
         \o Concat(SubSeq(ss, Len(ss) \div 2 + 1, Len(ss)))

(* JSON.stringify of a string array: ["a","b"] *)
JSONstringify(list) ==
    <<"[">> \o
    Concat([i \in 1..Len(list) |->
              (IF i > 1 THEN <<",">> ELSE <<>>) \o <<"''">> \o list[i] \o <<"''">>])
    \o <<"]">>

(* JSON.parse of a stored scopes text *)
JSONparse(text) == CHOOSE l \in ScopeLists : JSONstringify(l) = text

(* haystack.includes(needle) on text *)
StringIncludes(hay, needle) ==
    \E i \in 1..(Len(hay) - Len(needle) + 1) :
        SubSeq(hay, i, i + Len(needle) - 1) = needle

(* array.includes(x) *)
ArrayIncludes(arr, x) == \E i \in 1..Len(arr) : arr[i] = x

(* Math.floor(a / b), Math.ceil(a / b) for b > 0 *)
Floor(a, b) == a \div b
Ceil(a, b) == -((-a) \div b)

----------------------------------------------------------------------------
(* Rate limiter: lib/rateLimit.ts *)

RATE_LIMIT_CONFIG(endpoint) == [requests |-> Requests, windowMs |-> WindowMs]

WindowStart(t, endpoint) ==
    Floor(t, RATE_LIMIT_CONFIG(endpoint).windowMs) * RATE_LIMIT_CONFIG(endpoint).windowMs

(* A reset time one window too late *)
ResetTimeNextWindow(t, endpoint) ==
    WindowStart(t, endpoint) + 2 * RATE_LIMIT_CONFIG(endpoint).windowMs

(* resetTime = windowStart + windowMs *)
ResetTime(t, endpoint) == WindowStart(t, endpoint) + RATE_LIMIT_CONFIG(endpoint).windowMs

(* tx.rateLimitBucket.findUnique on the unique key *)
FindBucket(buckets, apiKey, endpoint, windowStart) ==
    {b \in buckets : b.apiKey = apiKey /\ b.endpoint = endpoint /\ b.windowStart = windowStart}

(* A bucket created without counting the call that creates it *)
NewBucketUncounted(apiKey, endpoint, windowStart) ==
    [apiKey |-> apiKey, endpoint |-> endpoint, windowStart |-> windowStart, requestCount |-> 0]

(* tx.rateLimitBucket.create with requestCount: 1 *)
NewBucket(apiKey, endpoint, windowStart) ==
    [apiKey |-> apiKey, endpoint |-> endpoint, windowStart |-> windowStart, requestCount |-> 1]

(* The result object of checkRateLimit.  raised: a RateLimitError was thrown;  *)
(* threw: the store operation that failed inside it ("none" if none did).        *)
RLResult(allowed, remaining, retryAfter, threw, t, endpoint) ==
    [allowed |-> allowed, limit |-> RATE_LIMIT_CONFIG(endpoint).requests,
     remaining |-> remaining, resetTime |-> ResetTime(t, endpoint),
     retryAfter |-> retryAfter, raised |-> ~allowed, threw |-> threw]

(* A catch block that blocks the request instead *)
FailClosed(threw, t, endpoint) ==
    RLResult(FALSE, 0, Some(Ceil(ResetTime(t, endpoint) - t, MsPerSec)), threw, t, endpoint)

(* The catch block: the request is let through *)
FailOpen(threw, t, endpoint) ==
    RLResult(TRUE, RATE_LIMIT_CONFIG(endpoint).requests, Null, threw, t, endpoint)

(* A denial whose retryAfter is rounded down *)
DeniedRoundedDown(t, endpoint) ==
    RLResult(FALSE, 0, Some(Floor(ResetTime(t, endpoint) - t, MsPerSec)), "none", t, endpoint)

(* The denial: retryAfter = Math.ceil((resetTime - now) / 1000) *)
Denied(t, endpoint) ==
    RLResult(FALSE, 0, Some(Ceil(ResetTime(t, endpoint) - t, MsPerSec)), "none", t, endpoint)

(* checkRateLimit run alone (no other transaction interleaved).  fail names   *)
(* the store operation that throws, if it is reached.                          *)
(* Returns the result and the bucket table after the call.                     *)
checkRateLimit(buckets, apiKey, endpoint, t, fail) ==
    LET ws == WindowStart(t, endpoint)
        found == FindBucket(buckets, apiKey, endpoint, ws)
        limit == RATE_LIMIT_CONFIG(endpoint).requests
    IN  IF fail = "find"
        THEN [result |-> FailOpen("find", t, endpoint), buckets |-> buckets]
        ELSE IF found = {}
        THEN IF fail = "create"
             THEN [result |-> FailOpen("create", t, endpoint), buckets |-> buckets]
             ELSE [result |-> RLResult(TRUE, limit - 1, Null, "none", t, endpoint),
                   buckets |-> buckets \cup {NewBucket(apiKey, endpoint, ws)}]
        ELSE LET b == CHOOSE x \in found : TRUE
                 updated == [b EXCEPT !.requestCount = @ + 1]
             IN  IF b.requestCount >= limit
                 THEN [result |-> Denied(t, endpoint), buckets |-> buckets]
                 ELSE IF fail = "update"
                 THEN [result |-> FailOpen("update", t, endpoint), buckets |-> buckets]
                 ELSE [result |-> RLResult(TRUE, limit - updated.requestCount, Null,
                                           "none", t, endpoint),
                       buckets |-> (buckets \ {b}) \cup {updated}]

----------------------------------------------------------------------------
(* Token service: lib/jwt.ts *)

MinPerHour == 60

(* The claims verifyConsentToken requires of a payload *)
RequiredClaims == {"sub", "purpose", "categories", "scopes", "iat", "exp"}

(* The signed token string.  HS256 over the header and payload is a function *)
(* of the payload: two calls with equal arguments in the same second return  *)
(* the same string.  sig: the third segment is the HMAC of the first two;    *)
(* missing, mistyped: the required claims the payload lacks or holds with    *)
(* another JSON type (none in a token the service issued).                   *)
_issueToken(userId, purpose, categories, scopes, ttlMinutes, t) ==
    [kind |-> "jwt", sig |-> TRUE, sub |-> userId, purpose |-> purpose,
     categories |-> categories, scopes |-> scopes, iat |-> Floor(t, MsPerSec),
     exp |-> Floor(t, MsPerSec) + ttlMinutes * SecPerMin,
     missing |-> {}, mistyped |-> {}]

(* The messages of the errors jose throws, as text *)
JoseInvalidCompact == <<"Invalid Compact JWS">>
JoseSignatureFailed == <<"signature", " verification failed">>
JoseIatNotNumber == <<"''iat''", " claim must be a number">>
JoseExpNotNumber == <<"''", "exp", "''", " claim must be a number">>
JoseExpired == <<"''", "exp", "''", " claim timestamp check failed">>

JoseError(name, message) == [ok |-> FALSE, name |-> name, message |-> message]

(* A verification that reads the clock in milliseconds *)
jwtVerifyMillis(auth, t) ==
    IF auth.kind # "jwt" THEN JoseError("JWSInvalid", JoseInvalidCompact)
    ELSE IF ~auth.sig
         THEN JoseError("JWSSignatureVerificationFailed", JoseSignatureFailed)
    ELSE IF "iat" \in auth.mistyped
         THEN JoseError("JWTClaimValidationFailed", JoseIatNotNumber)
    ELSE IF "exp" \in auth.mistyped
         THEN JoseError("JWTClaimValidationFailed", JoseExpNotNumber)
    ELSE IF "exp" \notin auth.missing /\ auth.exp <= t
         THEN JoseError("JWTExpired", JoseExpired)
    ELSE [ok |-> TRUE, name |-> "", message |-> <<>>]

(* jose jwtVerify(token, secret, { algorithms: [HS256] }): the compact form  *)
(* is split, the signature is verified, then the claims set is validated     *)
(* against the clock in whole seconds.                                        *)
jwtVerify(auth, t) ==
    IF auth.kind # "jwt" THEN JoseError("JWSInvalid", JoseInvalidCompact)
    ELSE IF ~auth.sig
         THEN JoseError("JWSSignatureVerificationFailed", JoseSignatureFailed)
    ELSE IF "iat" \in auth.mistyped
         THEN JoseError("JWTClaimValidationFailed", JoseIatNotNumber)
    ELSE IF "exp" \in auth.mistyped
         THEN JoseError("JWTClaimValidationFailed", JoseExpNotNumber)
    ELSE IF "exp" \notin auth.missing /\ auth.exp <= Floor(t, MsPerSec)
         THEN JoseError("JWTExpired", JoseExpired)
    ELSE [ok |-> TRUE, name |-> "", message |-> <<>>]

ConsentTokenError(code) == [name |-> "ConsentTokenError", code |-> code]

(* A catch block that rethrows what it does not recognise *)
VerifyCatchRethrow(error) ==
    IF StringIncludes(error.message, <<"exp">>) THEN ConsentTokenError("EXPIRED")
    ELSE IF StringIncludes(error.message, <<"signature">>)
         THEN ConsentTokenError("VERIFICATION_FAILED")
    ELSE [name |-> error.name, code |-> ""]

(* The catch block of verifyConsentToken for an error of jose *)
VerifyCatch(error) ==
    IF StringIncludes(error.message, <<"exp">>) THEN ConsentTokenError("EXPIRED")
    ELSE IF StringIncludes(error.message, <<"signature">>)
         THEN ConsentTokenError("VERIFICATION_FAILED")
    ELSE ConsentTokenError("VERIFICATION_FAILED")

(* The required-field checks on the payload jwtVerify returned.  now counts *)
(* from the first instant of a run, so an iat or exp of 0 here is not the    *)
(* number 0 of 1970 that !payload.iat would reject.                           *)
PayloadInvalid(auth) ==
    \/ "sub" \in auth.missing \cup auth.mistyped \/ auth.sub = ""
    \/ "purpose" \in auth.missing \cup auth.mistyped \/ auth.purpose = ""
    \/ "categories" \in auth.missing \cup auth.mistyped
    \/ "scopes" \in auth.missing \cup auth.mistyped
    \/ "iat" \in auth.missing
    \/ "exp" \in auth.missing

(* verifyConsentToken: what the call throws, name "" if it returns *)
VerifyThrown(auth, t) ==
    IF auth.kind = "empty" THEN ConsentTokenError("MALFORMED")
    ELSE IF ~jwtVerify(auth, t).ok THEN VerifyCatch(jwtVerify(auth, t))
    ELSE IF PayloadInvalid(auth) THEN ConsentTokenError("INVALID")
    ELSE [name |-> "", code |-> "OK"]

(* verifyConsentToken: "OK" (the payload is the token record) or the code of *)
(* the ConsentTokenError.  jwtVerify rejects a token with exp <= now (s).     *)
verifyConsentToken(auth, t) == VerifyThrown(auth, t).code

----------------------------------------------------------------------------
(* Guards: lib/guards.ts *)

Err(status, code) == [status |-> status, code |-> code]
Ok == [status |-> 200, code |-> "OK"]

(* requireApiClient: apiKey is the x-api-key header ("" when absent) *)
requireApiClient(apiKey, fail) ==
    IF apiKey = "" THEN Err(401, "API_KEY_REQUIRED")
    ELSE IF fail = "apiClient" THEN Err(401, "API_KEY_VALIDATION_FAILED")
    ELSE IF apiKey \notin ApiKeys THEN Err(401, "INVALID_API_KEY")
    ELSE Ok

(* consentToken.findFirst({ jwt, userId }): the ids of the matching rows *)
StoredTokens(tokens, auth) ==
    {i \in 1..Len(tokens) : tokens[i].jwt = auth /\ tokens[i].userId = auth.sub}

(* A guard that trusts the signature of a token it finds no row for *)
requireConsentTokenSignatureOnly(auth, stored, t, fail) ==
    IF auth.kind = "none" THEN Err(403, "AUTH_HEADER_REQUIRED")
    ELSE IF auth.kind = "noBearer" THEN Err(403, "INVALID_AUTH_FORMAT")
    ELSE IF verifyConsentToken(auth, t) = "EXPIRED" THEN Err(403, "TOKEN_EXPIRED")
    ELSE IF verifyConsentToken(auth, t) = "INVALID" THEN Err(403, "INVALID_TOKEN")
    ELSE IF verifyConsentToken(auth, t) = "MALFORMED" THEN Err(403, "MALFORMED_TOKEN")
    ELSE IF verifyConsentToken(auth, t) = "VERIFICATION_FAILED"
         THEN Err(403, "TOKEN_VERIFICATION_FAILED")
    ELSE IF fail = "token" THEN Err(403, "CONSENT_TOKEN_FAILED")
    ELSE IF stored = Null THEN Ok
    ELSE IF stored[1].revoked THEN Err(403, "TOKEN_REVOKED")
    ELSE IF stored[1].expiresAt < t THEN Err(403, "TOKEN_EXPIRED")
    ELSE Ok

(* requireConsentToken: auth is the bearer token, stored the row findFirst  *)
(* returned (Null when it returned none)                                     *)
requireConsentToken(auth, stored, t, fail) ==
    IF auth.kind = "none" THEN Err(403, "AUTH_HEADER_REQUIRED")
    ELSE IF auth.kind = "noBearer" THEN Err(403, "INVALID_AUTH_FORMAT")
    ELSE IF verifyConsentToken(auth, t) = "EXPIRED" THEN Err(403, "TOKEN_EXPIRED")
    ELSE IF verifyConsentToken(auth, t) = "INVALID" THEN Err(403, "INVALID_TOKEN")
    ELSE IF verifyConsentToken(auth, t) = "MALFORMED" THEN Err(403, "MALFORMED_TOKEN")
    ELSE IF verifyConsentToken(auth, t) = "VERIFICATION_FAILED"
         THEN Err(403, "TOKEN_VERIFICATION_FAILED")
    ELSE IF fail = "token" THEN Err(403, "CONSENT_TOKEN_FAILED")
    ELSE IF stored = Null THEN Err(403, "TOKEN_NOT_FOUND")
    ELSE IF stored[1].revoked THEN Err(403, "TOKEN_REVOKED")
    ELSE IF stored[1].expiresAt < t THEN Err(403, "TOKEN_EXPIRED")
    ELSE Ok

(* consentPolicy.findMany({ userId, category: { key: { in: categories } }, purpose }) *)
MatchingPolicies(policies, userId, categories, purpose) ==
    {p \in policies : /\ p.userId = userId
                      /\ ArrayIncludes(categories, p.category)
                      /\ p.purpose = purpose}

(* The scopes of the request that policy.scopes.includes does not find.      *)
(* policy.scopes is the text written by upsertUserPolicy.                    *)
MissingScopes(p, scopes) ==
    SelectSeq(scopes, LAMBDA sc : ~StringIncludes(p.scopes, sc))

(* A loop body without the RESTRICTED rule *)
PolicyErrorNoRestricted(p, scopes, t) ==
    IF p.status = "REVOKED" THEN "CONSENT_REVOKED"
    ELSE IF p.expiresAt # Null /\ p.expiresAt[1] < t THEN "CONSENT_EXPIRED"
    ELSE IF MissingScopes(p, scopes) # <<>> THEN "INSUFFICIENT_SCOPES"
    ELSE "OK"

(* The body of the loop over the rows: the error the row raises, "OK" if none *)
PolicyError(p, scopes, t) ==
    IF p.status = "REVOKED" THEN "CONSENT_REVOKED"
    ELSE IF p.status = "RESTRICTED" THEN "CONSENT_RESTRICTED"
    ELSE IF p.status # "GRANTED" THEN "INVALID_CONSENT_STATUS"
    ELSE IF p.expiresAt # Null /\ p.expiresAt[1] < t THEN "CONSENT_EXPIRED"
    ELSE IF MissingScopes(p, scopes) # <<>> THEN "INSUFFICIENT_SCOPES"
    ELSE "OK"

(* categories.filter(cat => !policyCategoryKeys.includes(cat)): the requested *)
(* categories no returned row belongs to, in the order of the request         *)
MissingCategories(policies, userId, categories, purpose) ==
    SelectSeq(categories,
              LAMBDA cat : \A p \in MatchingPolicies(policies, userId, categories, purpose) :
                              p.category # cat)

(* A policy evaluator that runs the loop over the rows before it looks for  *)
(* categories without a row                                                   *)
ensureConsentAllowedRowsFirst(policies, userId, categories, purpose, scopes, t, fail) ==
    LET rows == MatchingPolicies(policies, userId, categories, purpose)
        errs == {PolicyError(p, scopes, t) : p \in rows} \ {"OK"}
    IN  IF userId = "" \/ purpose = "" THEN {"INVALID_CONSENT_PARAMS"}
        ELSE IF fail = "policy" THEN {"CONSENT_VALIDATION_FAILED"}
        ELSE IF errs # {} THEN errs
        ELSE IF MissingCategories(policies, userId, categories, purpose) # <<>>
        THEN {"MISSING_CONSENT_POLICY"}
        ELSE {"OK"}

(* A policy evaluator that lets the request through when the store fails *)
ensureConsentAllowedFailOpen(policies, userId, categories, purpose, scopes, t, fail) ==
    LET rows == MatchingPolicies(policies, userId, categories, purpose)
        errs == {PolicyError(p, scopes, t) : p \in rows} \ {"OK"}
    IN  IF fail = "policy" THEN {"OK"}
        ELSE IF \E i \in 1..Len(categories) :
                    \A p \in rows : p.category # categories[i]
        THEN {"MISSING_CONSENT_POLICY"}
        ELSE IF errs = {} THEN {"OK"} ELSE errs

(* ensureConsentAllowed: the codes the call can end with ("OK": it returns). *)
(* The rows come back in no particular order and the first failing row       *)
(* throws, so every failing row's code is a possible outcome.                *)
ensureConsentAllowed(policies, userId, categories, purpose, scopes, t, fail) ==
    LET rows == MatchingPolicies(policies, userId, categories, purpose)
        errs == {PolicyError(p, scopes, t) : p \in rows} \ {"OK"}
    IN  IF userId = "" \/ purpose = "" THEN {"INVALID_CONSENT_PARAMS"}
        ELSE IF fail = "policy" THEN {"CONSENT_VALIDATION_FAILED"}
        ELSE IF \E i \in 1..Len(categories) :
                    \A p \in rows : p.category # categories[i]
        THEN {"MISSING_CONSENT_POLICY"}
        ELSE IF errs = {} THEN {"OK"} ELSE errs

----------------------------------------------------------------------------
(* Initial values of the tables and histories *)

NoAuth == [kind |-> "none", sig |-> FALSE, sub |-> "", purpose |-> "", categories |-> <<>>,
           scopes |-> <<>>, iat |-> 0, exp |-> 0, missing |-> {}, mistyped |-> {}]

NoResp == [status |-> 0, code |-> "", auth |-> NoAuth, category |-> "", purpose |-> "",
           threw |-> "none", results |-> FALSE, stages |-> <<>>, retryAfter |-> Null]

NoRet == [fn |-> ""]

IdleCall == [pc |-> "idle", t |-> 0, windowStart |-> 0, bucket |-> Null,
             allowed |-> FALSE, threw |-> "none"]

(* Concurrent callers of checkRateLimit: one more than the ceiling *)
Procs == 1..(Requests + 1)

EmptyStore ==
    /\ consentTokens = <<>>
    /\ consentPolicies = {}
    /\ rateLimitBuckets = {}
    /\ signed = {}
    /\ withdrawn = {}
    /\ resp = NoResp
    /\ ret = NoRet
    /\ rlLog = <<>>
    /\ calls = [p \in Procs |-> IdleCall]

(* The clock moves forward to t *)
Tick(t) ==
    /\ t > now
    /\ now' = t
    /\ resp' = NoResp /\ ret' = NoRet
    /\ UNCHANGED <<consentTokens, consentPolicies, rateLimitBuckets, signed,
                   withdrawn, rlLog, calls>>

----------------------------------------------------------------------------
(* Consent tokens: app/api/consent/issue, app/api/consent/revoke,            *)
(* app/dashboard/actions.ts, lib/jwt.ts                                       *)

TokenRow(userId, token, purpose, categories, scopes) ==
    [userId |-> userId, jwt |-> token, purpose |-> purpose, categories |-> categories,
     scopes |-> scopes, expiresAt |-> token.exp * MsPerSec, revoked |-> FALSE]

(* A create that reuses the row of an equal token string and resets it *)
UpsertToken(tokens, row) ==
    IF \E i \in 1..Len(tokens) : tokens[i].jwt = row.jwt
    THEN [i \in 1..Len(tokens) |->
            IF tokens[i].jwt = row.jwt THEN row ELSE tokens[i]]
    ELSE Append(tokens, row)

(* prisma.consentToken.create *)
CreateToken(tokens, row) == Append(tokens, row)

(* POST /api/consent/issue: evaluate the policies, sign, store *)
IssueRoute(user, purpose, categories, scopes, ttlMinutes) ==
    LET codes == ensureConsentAllowed(consentPolicies, user, categories, purpose,
                                      scopes, now, "none")
        token == _issueToken(user, purpose, categories, scopes, ttlMinutes, now)
    IN  /\ codes = {"OK"}
        /\ consentTokens' = CreateToken(consentTokens,
                                TokenRow(user, token, purpose, categories, scopes))
        /\ signed' = signed \cup {[jwt |-> token, path |-> "route",
                                   checked |-> "OK" \in codes]}
        /\ resp' = NoResp /\ ret' = NoRet
        /\ UNCHANGED <<now, consentPolicies, rateLimitBuckets, withdrawn, rlLog, calls>>

(* issueTokenJsonAction: sign through the legacy signature of                *)
(* issueConsentToken; nothing is evaluated and nothing is stored             *)
IssueTokenJsonAction(user, purpose, categoryKeys, scopes, ttlHours) ==
    LET expiresAt == now + ttlHours * MinPerHour * SecPerMin * MsPerSec
        ttlMinutes == Floor(Floor(expiresAt - now, MsPerSec), SecPerMin)
        token == _issueToken(user, purpose, categoryKeys, scopes, ttlMinutes, now)
    IN  /\ signed' = signed \cup {[jwt |-> token, path |-> "action", checked |-> FALSE]}
        /\ resp' = NoResp /\ ret' = NoRet
        /\ UNCHANGED <<now, consentTokens, consentPolicies, rateLimitBuckets,
                       withdrawn, rlLog, calls>>

(* The checks both revoke paths make before the update *)
Revocable(user, tokenId) ==
    /\ tokenId \in 1..Len(consentTokens)
    /\ consentTokens[tokenId].userId = user
    /\ ~consentTokens[tokenId].revoked
    /\ ~(consentTokens[tokenId].expiresAt < now)

(* POST /api/consent/revoke *)
RevokeRoute(user, tokenId) ==
    /\ Revocable(user, tokenId)
    /\ consentTokens' = [consentTokens EXCEPT ![tokenId].revoked = TRUE]
    /\ resp' = NoResp /\ ret' = NoRet
    /\ UNCHANGED <<now, consentPolicies, rateLimitBuckets, signed, withdrawn, rlLog, calls>>

(* revokeConsentToken, called by revokeTokenJsonAction *)
RevokeConsentToken(user, tokenId) ==
    /\ Revocable(user, tokenId)
    /\ consentTokens' = [consentTokens EXCEPT ![tokenId].revoked = TRUE]
    /\ resp' = NoResp /\ ret' = NoRet
    /\ UNCHANGED <<now, consentPolicies, rateLimitBuckets, signed, withdrawn, rlLog, calls>>

----------------------------------------------------------------------------
(* Consent policies: lib/policyService.ts *)

PolicyIds == 1..MaxPolicies

FreeIds == PolicyIds \ {p.id : p \in consentPolicies}

Withdraws(status) == status \in {"REVOKED", "RESTRICTED"}

(* upsertUserPolicy with data.id: update({ where: { id, userId } }) *)
UpdatePolicyById(user, id, purpose, scopes, status, expiresAt) ==
    \E old \in consentPolicies :
        /\ old.id = id /\ old.userId = user
        /\ consentPolicies' = (consentPolicies \ {old}) \cup
              {[old EXCEPT !.purpose = purpose, !.scopes = JSONstringify(scopes),
                           !.status = status, !.expiresAt = expiresAt]}
        /\ withdrawn' = IF Withdraws(status)
                        THEN withdrawn \cup {<<user, old.category, purpose>>}
                        ELSE withdrawn
        /\ resp' = NoResp /\ ret' = NoRet
        /\ UNCHANGED <<now, consentTokens, rateLimitBuckets, signed, rlLog, calls>>

(* upsertUserPolicy without id: findFirst on (userId, categoryId, purpose),  *)
(* then update that row or create one                                         *)
UpsertUserPolicy(user, categoryId, purpose, scopes, status, expiresAt) ==
    LET existing == {p \in consentPolicies :
                        p.userId = user /\ p.category = categoryId /\ p.purpose = purpose}
    IN  /\ \/ \E old \in existing :
                 consentPolicies' = (consentPolicies \ {old}) \cup
                     {[old EXCEPT !.scopes = JSONstringify(scopes), !.status = status,
                                  !.expiresAt = expiresAt]}
           \/ /\ existing = {}
              /\ FreeIds # {}
              /\ consentPolicies' = consentPolicies \cup
                     {[id |-> CHOOSE i \in FreeIds : TRUE, userId |-> user,
                       category |-> categoryId, purpose |-> purpose,
                       scopes |-> JSONstringify(scopes), status |-> status,
                       expiresAt |-> expiresAt]}
        /\ withdrawn' = IF Withdraws(status)
                        THEN withdrawn \cup {<<user, categoryId, purpose>>}
                        ELSE withdrawn
        /\ resp' = NoResp /\ ret' = NoRet
        /\ UNCHANGED <<now, consentTokens, rateLimitBuckets, signed, rlLog, calls>>

(* deleteUserPolicy: delete({ where: { id, userId } }) *)
DeleteUserPolicy(user, id) ==
    \E old \in consentPolicies :
        /\ old.id = id /\ old.userId = user
        /\ consentPolicies' = consentPolicies \ {old}
        /\ withdrawn' = withdrawn \cup {<<user, old.category, old.purpose>>}
        /\ resp' = NoResp /\ ret' = NoRet
        /\ UNCHANGED <<now, consentTokens, rateLimitBuckets, signed, rlLog, calls>>

----------------------------------------------------------------------------
(* Query orchestrator: POST /api/pdp/query                                   *)

(* The response.  stages: the stages of the handler that ran, in the order   *)
(* they ran; retryAfter: the Retry-After header, Null without one            *)
Response(status, code, auth, category, purpose, threw, stages, retryAfter) ==
    [status |-> status, code |-> code, auth |-> auth, category |-> category,
     purpose |-> purpose, threw |-> threw, results |-> status = 200,
     stages |-> stages, retryAfter |-> retryAfter]

(* A handler that validates the category before it evaluates the policies *)
QueryResponseCategoryFirst(apiKey, auth, stored, category, purpose, polCode, rl, fail) ==
    LET api == requireApiClient(apiKey, fail)
        tok == requireConsentToken(auth, stored, now, fail)
        rlThrew == IF rl.threw # "none" THEN "rateLimit" ELSE "none"
        R(status, code, threw, stages) ==
            Response(status, code, auth, category, purpose, threw, stages,
                     IF status = 429 THEN rl.retryAfter ELSE Null)
        sApi == <<"apiClient">>
        sRate == Append(sApi, "rateLimit")
        sToken == Append(sRate, "token")
        sBody == Append(sToken, "body")
        sCategory == Append(sBody, "category")
        sPolicy == Append(sCategory, "policy")
        sFetch == Append(sPolicy, "fetch")
        sLog == Append(sFetch, "log")
    IN  IF api.status # 200
        THEN R(api.status, api.code,
               IF api.code = "API_KEY_VALIDATION_FAILED" THEN "apiClient" ELSE "none",
               sApi)
        ELSE IF ~rl.allowed THEN R(429, "RATE_LIMIT_EXCEEDED", "none", sRate)
        ELSE IF tok.status # 200
        THEN R(tok.status, tok.code,
               IF tok.code = "CONSENT_TOKEN_FAILED" THEN "token" ELSE rlThrew, sToken)
        ELSE IF category = "" \/ purpose = ""
        THEN R(400, "VALIDATION_ERROR", rlThrew, sBody)
        ELSE IF fail = "category" THEN R(500, "INTERNAL_ERROR", "category", sCategory)
        ELSE IF category \notin Categories THEN R(400, "NOT_FOUND", rlThrew, sCategory)
        ELSE IF polCode # "OK"
        THEN R(403, polCode, IF fail = "policy" THEN "policy" ELSE rlThrew, sPolicy)
        ELSE IF fail = "fetch" THEN R(500, "INTERNAL_ERROR", "fetch", sFetch)
        ELSE R(200, "OK", fail, Append(sLog, "noise"))

(* A handler that lets a failure of the access log end the request *)
QueryResponseLogFails(apiKey, auth, stored, category, purpose, polCode, rl, fail) ==
    LET api == requireApiClient(apiKey, fail)
        tok == requireConsentToken(auth, stored, now, fail)
        rlThrew == IF rl.threw # "none" THEN "rateLimit" ELSE "none"
        R(status, code, threw, stages) ==
            Response(status, code, auth, category, purpose, threw, stages,
                     IF status = 429 THEN rl.retryAfter ELSE Null)
        sApi == <<"apiClient">>
        sRate == Append(sApi, "rateLimit")
        sToken == Append(sRate, "token")
        sBody == Append(sToken, "body")
        sPolicy == Append(sBody, "policy")
        sCategory == Append(sPolicy, "category")
        sFetch == Append(sCategory, "fetch")
        sLog == Append(sFetch, "log")
    IN  IF api.status # 200
        THEN R(api.status, api.code,
               IF api.code = "API_KEY_VALIDATION_FAILED" THEN "apiClient" ELSE "none",
               sApi)
        ELSE IF ~rl.allowed THEN R(429, "RATE_LIMIT_EXCEEDED", "none", sRate)
        ELSE IF tok.status # 200
        THEN R(tok.status, tok.code,
               IF tok.code = "CONSENT_TOKEN_FAILED" THEN "token" ELSE rlThrew, sToken)
        ELSE IF category = "" \/ purpose = ""
        THEN R(400, "VALIDATION_ERROR", rlThrew, sBody)
        ELSE IF polCode # "OK"
        THEN R(403, polCode, IF fail = "policy" THEN "policy" ELSE rlThrew, sPolicy)
        ELSE IF fail = "category" THEN R(500, "INTERNAL_ERROR", "category", sCategory)
        ELSE IF category \notin Categories THEN R(400, "NOT_FOUND", rlThrew, sCategory)
        ELSE IF fail = "fetch" THEN R(500, "INTERNAL_ERROR", "fetch", sFetch)
        ELSE IF fail \in {"tokenId", "log"} THEN R(500, "INTERNAL_ERROR", fail, sLog)
        ELSE R(200, "OK", fail, Append(sLog, "noise"))

(* The response of the handler.  stored: the row findFirst returned for the  *)
(* bearer token; polCode: the outcome of ensureConsentAllowed; rl: the        *)
(* result of checkRateLimit; fail: the store operation that throws.  The      *)
(* field threw names the store operation that threw among those the request   *)
(* got to.                                                                    *)
QueryResponse(apiKey, auth, stored, category, purpose, polCode, rl, fail) ==
    LET api == requireApiClient(apiKey, fail)
        tok == requireConsentToken(auth, stored, now, fail)
        rlThrew == IF rl.threw # "none" THEN "rateLimit" ELSE "none"
        R(status, code, threw, stages) ==
            Response(status, code, auth, category, purpose, threw, stages,
                     IF status = 429 THEN rl.retryAfter ELSE Null)
        sApi == <<"apiClient">>
        sRate == Append(sApi, "rateLimit")
        sToken == Append(sRate, "token")
        sBody == Append(sToken, "body")
        sPolicy == Append(sBody, "policy")
        sCategory == Append(sPolicy, "category")
        sFetch == Append(sCategory, "fetch")
        sLog == Append(sFetch, "log")
    IN  IF api.status # 200
        THEN R(api.status, api.code,
               IF api.code = "API_KEY_VALIDATION_FAILED" THEN "apiClient" ELSE "none",
               sApi)
        ELSE IF ~rl.allowed THEN R(429, "RATE_LIMIT_EXCEEDED", "none", sRate)
        ELSE IF tok.status # 200
        THEN R(tok.status, tok.code,
               IF tok.code = "CONSENT_TOKEN_FAILED" THEN "token" ELSE rlThrew, sToken)
        ELSE IF category = "" \/ purpose = ""
        THEN R(400, "VALIDATION_ERROR", rlThrew, sBody)
        ELSE IF polCode # "OK"
        THEN R(403, polCode, IF fail = "policy" THEN "policy" ELSE rlThrew, sPolicy)
        ELSE IF fail = "category" THEN R(500, "INTERNAL_ERROR", "category", sCategory)
        ELSE IF category \notin Categories THEN R(400, "NOT_FOUND", rlThrew, sCategory)
        ELSE IF fail = "fetch" THEN R(500, "INTERNAL_ERROR", "fetch", sFetch)
        ELSE R(200, "OK", fail, Append(sLog, "noise"))

(* A handler that counts a request against the limit only when it answers it *)
QueryCountsAnswered(apiKey, auth, category, purpose, fail) ==
    LET api == requireApiClient(apiKey, fail)
        rl == checkRateLimit(rateLimitBuckets, apiKey, Endpoint, now,
                             IF fail = "rateLimit" THEN "find" ELSE "none")
        rows == StoredTokens(consentTokens, auth)
    IN  /\ \E stored \in (IF rows = {} THEN {Null} ELSE {Some(consentTokens[i]) : i \in rows}),
              polCode \in ensureConsentAllowed(consentPolicies, auth.sub, <<category>>,
                                               purpose, RequiredScopes, now, fail) :
              resp' = QueryResponse(apiKey, auth, stored, category, purpose, polCode,
                                    rl.result, fail)
        /\ rateLimitBuckets' = IF resp'.status = 200 THEN rl.buckets ELSE rateLimitBuckets
        /\ ret' = NoRet
        /\ UNCHANGED <<now, consentTokens, consentPolicies, signed, withdrawn, rlLog, calls>>

(* POST /api/pdp/query *)
Query(apiKey, auth, category, purpose, fail) ==
    LET api == requireApiClient(apiKey, fail)
        rl == checkRateLimit(rateLimitBuckets, apiKey, Endpoint, now,
                             IF fail = "rateLimit" THEN "find" ELSE "none")
        rows == StoredTokens(consentTokens, auth)
    IN  /\ \E stored \in (IF rows = {} THEN {Null} ELSE {Some(consentTokens[i]) : i \in rows}),
              polCode \in ensureConsentAllowed(consentPolicies, auth.sub, <<category>>,
                                               purpose, RequiredScopes, now, fail) :
              resp' = QueryResponse(apiKey, auth, stored, category, purpose, polCode,
                                    rl.result, fail)
        /\ rateLimitBuckets' = IF api.status = 200 THEN rl.buckets ELSE rateLimitBuckets
        /\ ret' = NoRet
        /\ UNCHANGED <<now, consentTokens, consentPolicies, signed, withdrawn, rlLog, calls>>

(* A string that is not three dot-separated segments, and the empty string *)
Garbage == [NoAuth EXCEPT !.kind = "garbage"]
Empty == [NoAuth EXCEPT !.kind = "empty"]

Presentable == {s.jwt : s \in signed} \cup {NoAuth, Garbage}

----------------------------------------------------------------------------
(* SpecLim: checkRateLimit, one call at a time, with store failures *)

LimClock == {0, 500, 59001, 60000}
StoreOps == {"none", "find", "create", "update"}

CheckRateLimitCall(apiKey, fail) ==
    LET r == checkRateLimit(rateLimitBuckets, apiKey, Endpoint, now, fail)
    IN  /\ Len(rlLog) < Requests + ExtraCalls
        /\ rateLimitBuckets' = r.buckets
        /\ rlLog' = Append(rlLog, [apiKey |-> apiKey,
                                   windowStart |-> WindowStart(now, Endpoint),
                                   t |-> now, result |-> r.result])
        /\ resp' = NoResp /\ ret' = NoRet
        /\ UNCHANGED <<now, consentTokens, consentPolicies, signed, withdrawn, calls>>

InitLim == now = 0 /\ EmptyStore

NextLim ==
    \/ \E k \in ApiKeys, f \in StoreOps : CheckRateLimitCall(k, f)
    \/ \E t \in LimClock : Tick(t)

SpecLim == InitLim /\ [][NextLim]_vars

(* The calls of rlLog made for apiKey in the window starting at ws *)
CallsIn(apiKey, ws) ==
    SelectSeq(rlLog, LAMBDA e : e.apiKey = apiKey /\ e.windowStart = ws)

NoFailureIn(apiKey, ws) ==
    \A i \in 1..Len(CallsIn(apiKey, ws)) : CallsIn(apiKey, ws)[i].result.threw = "none"

(* C4: with ceiling N and no store failure, the k-th sequential call of a   *)
(* window (k <= N) is allowed with remaining = N - k, and every call after   *)
(* the N-th is denied with retryAfter >= 1.                                   *)
C4_SequentialCalls ==
    \A k \in ApiKeys, ws \in {WindowStart(t, Endpoint) : t \in LimClock} :
        NoFailureIn(k, ws) =>
            \A i \in 1..Len(CallsIn(k, ws)) :
                LET r == CallsIn(k, ws)[i].result
                IN  /\ i <= Requests => (r.allowed /\ ~r.raised /\ r.remaining = Requests - i)
                    /\ i > Requests => (~r.allowed /\ r.raised /\ r.retryAfter # Null
                                         /\ r.retryAfter[1] >= 1)

(* A window received N + 1 calls without failure, the last one late in the window *)
C4_Witness ==
    \E k \in ApiKeys, ws \in {WindowStart(t, Endpoint) : t \in LimClock} :
        /\ NoFailureIn(k, ws)
        /\ Len(CallsIn(k, ws)) = Requests + 1
        /\ CallsIn(k, ws)[Requests + 1].t = 59001
        /\ CallsIn(k, ws)[Requests + 1].result.retryAfter = Some(1)

(* C5: a call in which a store operation failed reports allowed = true and  *)
(* raises nothing.                                                            *)
C5_FailOpen ==
    \A i \in 1..Len(rlLog) :
        rlLog[i].result.threw # "none" =>
            (rlLog[i].result.allowed /\ ~rlLog[i].result.raised)

(* Each of the three store operations has failed in some call *)
C5_Witness ==
    \A op \in {"find", "create", "update"} :
        \E i \in 1..Len(rlLog) : rlLog[i].result.threw = op /\ rlLog[i].result.allowed

----------------------------------------------------------------------------
(* SpecRL: concurrent checkRateLimit calls, statement by statement.         *)
(* prisma.$transaction runs at the isolation level of the database: the     *)
(* statements of concurrent transactions interleave, a create on an         *)
(* existing unique key throws, and an update of a row that another          *)
(* transaction changed since it was read either applies its atomic          *)
(* increment (READ COMMITTED) or aborts the transaction (serialization      *)
(* failure, SQLITE_BUSY).                                                    *)

RLClock == {0, 60000}

SetCall(p, c) == calls' = [calls EXCEPT ![p] = c]

(* lines 56-67: config, now, windowStart, resetTime *)
RLBegin(p) ==
    /\ calls[p].pc = "idle"
    /\ SetCall(p, [calls[p] EXCEPT !.pc = "find", !.t = now,
                                   !.windowStart = WindowStart(now, Endpoint)])
    /\ UNCHANGED <<now, consentTokens, consentPolicies, rateLimitBuckets, signed,
                   withdrawn, resp, ret, rlLog>>

(* lines 73-113: findUnique, then the branch taken on what was read *)
RLFind(p) ==
    LET found == FindBucket(rateLimitBuckets, "key1", Endpoint, calls[p].windowStart)
    IN  /\ calls[p].pc = "find"
        /\ IF found = {}
           THEN SetCall(p, [calls[p] EXCEPT !.pc = "create"])
           ELSE LET b == CHOOSE x \in found : TRUE
                IN  IF b.requestCount >= RATE_LIMIT_CONFIG(Endpoint).requests
                    THEN SetCall(p, [calls[p] EXCEPT !.pc = "done", !.bucket = Some(b),
                                                     !.allowed = FALSE])
                    ELSE SetCall(p, [calls[p] EXCEPT !.pc = "update", !.bucket = Some(b)])
        /\ UNCHANGED <<now, consentTokens, consentPolicies, rateLimitBuckets, signed,
                       withdrawn, resp, ret, rlLog>>

(* lines 85-99, and the catch block 143-158 when the unique key exists by now *)
RLCreate(p) ==
    LET found == FindBucket(rateLimitBuckets, "key1", Endpoint, calls[p].windowStart)
    IN  /\ calls[p].pc = "create"
        /\ IF found = {}
           THEN /\ rateLimitBuckets' = rateLimitBuckets \cup
                        {NewBucket("key1", Endpoint, calls[p].windowStart)}
                /\ SetCall(p, [calls[p] EXCEPT !.pc = "done", !.allowed = TRUE])
           ELSE /\ rateLimitBuckets' = rateLimitBuckets
                /\ SetCall(p, [calls[p] EXCEPT !.pc = "done", !.threw = "create",
                        !.allowed = FailOpen("create", calls[p].t, Endpoint).allowed])
        /\ UNCHANGED <<now, consentTokens, consentPolicies, signed, withdrawn, resp, ret, rlLog>>

(* lines 116-128: requestCount: { increment: 1 } on the row read earlier *)
RLUpdate(p) ==
    LET found == FindBucket(rateLimitBuckets, "key1", Endpoint, calls[p].windowStart)
        b == CHOOSE x \in found : TRUE
    IN  /\ calls[p].pc = "update"
        /\ found # {}
        /\ \/ /\ rateLimitBuckets' = (rateLimitBuckets \ {b}) \cup
                        {[b EXCEPT !.requestCount = @ + 1]}
              /\ SetCall(p, [calls[p] EXCEPT !.pc = "done", !.allowed = TRUE])
           \/ /\ Some(b) # calls[p].bucket
              /\ rateLimitBuckets' = rateLimitBuckets
              /\ SetCall(p, [calls[p] EXCEPT !.pc = "done", !.threw = "update",
                        !.allowed = FailOpen("update", calls[p].t, Endpoint).allowed])
        /\ UNCHANGED <<now, consentTokens, consentPolicies, signed, withdrawn, resp, ret, rlLog>>

InitRL == now = 0 /\ EmptyStore

NextRL ==
    \/ \E p \in Procs : RLBegin(p)
    \/ \E p \in Procs : RLFind(p)
    \/ \E p \in Procs : RLCreate(p)
    \/ \E p \in Procs : RLUpdate(p)
    \/ \E t \in RLClock : Tick(t)

SpecRL == InitRL /\ [][NextRL]_vars

AllowedIn(ws) ==
    {p \in Procs : calls[p].pc = "done" /\ calls[p].allowed /\ calls[p].windowStart = ws}

(* C3: for every interleaving of concurrent checkRateLimit calls on one     *)
(* (apiKey, endpoint, window), at most N calls return allowed = true.        *)
C3_CeilingHolds ==
    \A ws \in {WindowStart(t, Endpoint) : t \in RLClock} :
        Cardinality(AllowedIn(ws)) <= RATE_LIMIT_CONFIG(Endpoint).requests

----------------------------------------------------------------------------
(* SpecTok: tokens are issued, revoked and presented while the clock runs;   *)
(* the subject holds one GRANTED policy throughout.  Every store operation   *)
(* of a query can fail.                                                       *)

TokClock == {0, 60000, 60500}
Stages == {"none", "apiClient", "rateLimit", "token", "policy", "category", "fetch",
           "tokenId", "log"}

StandingPolicy ==
    [id |-> 1, userId |-> "alice", category |-> "health", purpose |-> "research",
     scopes |-> JSONstringify(<<read, aggregate>>), status |-> "GRANTED",
     expiresAt |-> Null]

InitTok ==
    /\ now = 0
    /\ consentTokens = <<>>
    /\ consentPolicies = {StandingPolicy}
    /\ rateLimitBuckets = {}
    /\ signed = {}
    /\ withdrawn = {}
    /\ resp = NoResp
    /\ ret = NoRet
    /\ rlLog = <<>>
    /\ calls = [p \in Procs |-> IdleCall]

MintedByAction == {s \in signed : s.path = "action"}

(* The requests of SpecTok: a registered key with any failing store       *)
(* operation, a missing or unknown key with none or a failing key lookup   *)
TokQueries ==
    ({"key1"} \X Stages) \cup ({"", "bad"} \X {"none", "apiClient"})

NextTok ==
    \/ \E u \in Users, pu \in Purposes :
          /\ Len(consentTokens) < MaxTokens
          /\ IssueRoute(u, pu, <<"health">>, <<read, aggregate>>, 1)
    \/ \E u \in Users :
          /\ Cardinality(MintedByAction) < MaxMinted
          /\ IssueTokenJsonAction(u, "research", <<"health">>, <<read, aggregate>>, 1)
    \/ \E u \in Users, id \in 1..MaxTokens : RevokeRoute(u, id)
    \/ \E u \in Users, id \in 1..MaxTokens : RevokeConsentToken(u, id)
    \/ \E t \in TokClock : Tick(t)
    \/ \E q \in TokQueries, a \in Presentable :
          Query(q[1], a, "health", "research", q[2])

SpecTok == InitTok /\ [][NextTok]_vars

(* C1: no query returns a result for a token of which a persisted record is *)
(* revoked or past its expiry when requireConsentToken checks it.            *)
C1_NoRevokedOrExpired ==
    resp.status = 200 =>
        \A i \in StoredTokens(consentTokens, resp.auth) :
            /\ ~consentTokens[i].revoked
            /\ ~(consentTokens[i].expiresAt < now)

(* C6: a store failure in the API-key lookup, the token lookup, the policy   *)
(* lookup, the category lookup or the data fetch ends the query with an      *)
(* error response and no result.                                              *)
C6_FailClosed ==
    resp.threw \in {"apiClient", "token", "policy", "category", "fetch"} =>
        (resp.status >= 400 /\ ~resp.results)

(* The data fetch of an otherwise successful query failed *)
C6_Witness ==
    /\ resp.threw = "fetch"
    /\ resp.status = 500
    /\ resp.auth.kind = "jwt"

(* C10: every token was signed after a successful ensureConsentAllowed.     *)
C10_EvaluatedBeforeSigning ==
    \A s \in signed : s.checked

----------------------------------------------------------------------------
(* SpecPol: the subject edits the consent policies while a token issued by  *)
(* the route is presented to the query endpoint.                             *)

PolClock == {0, 60500}
PolTokens == 1

(* The policies the subject writes: scopes, status, expiresAt *)
PolProfiles ==
    { <<<<read, aggregate>>, "GRANTED", Null>>,
      <<<<read, aggregate>>, "GRANTED", Some(60000)>>,
      <<<<read>>, "GRANTED", Null>>,
      <<<<readVitals, aggregate>>, "GRANTED", Null>>,
      <<<<read, aggregate>>, "REVOKED", Null>>,
      <<<<read, aggregate>>, "RESTRICTED", Null>> }

InitPol == now = 0 /\ EmptyStore

NextPol ==
    \/ \E u \in Users, pu \in Purposes, f \in PolProfiles :
          UpsertUserPolicy(u, "health", pu, f[1], f[2], f[3])
    \/ \E u \in Users, id \in PolicyIds, pu \in Purposes, f \in PolProfiles :
          UpdatePolicyById(u, id, pu, f[1], f[2], f[3])
    \/ \E u \in Users, id \in PolicyIds : DeleteUserPolicy(u, id)
    \/ \E u \in Users, pu \in Purposes :
          /\ Len(consentTokens) < PolTokens
          /\ IssueRoute(u, pu, <<"health">>, <<read, aggregate>>, 2)
    \/ \E t \in PolClock : Tick(t)
    \/ \E a \in {s.jwt : s \in signed}, pu \in Purposes :
          Query("key1", a, "health", pu, "none")

SpecPol == InitPol /\ [][NextPol]_vars

(* The rows of the subject for a category *)
PoliciesOf(userId, category) ==
    {p \in consentPolicies : p.userId = userId /\ p.category = category}

Grants(p) ==
    /\ p.status = "GRANTED"
    /\ (p.expiresAt = Null \/ ~(p.expiresAt[1] < now))
    /\ ArrayIncludes(JSONparse(p.scopes), read)
    /\ ArrayIncludes(JSONparse(p.scopes), aggregate)

(* C2: a query returns a result only if a policy of the token's subject for *)
(* the requested category is GRANTED, not past its expiry, and grants both   *)
(* the read and the aggregate scope.                                          *)
C2_ResultOnlyWithGrant ==
    resp.status = 200 =>
        \E p \in PoliciesOf(resp.auth.sub, resp.category) : Grants(p)

(* C9: a query returns a result only if the subject has a GRANTED policy    *)
(* for the requested category under the purpose carried in the token.        *)
C9_TokenPurposeEvaluated ==
    resp.status = 200 =>
        \E p \in PoliciesOf(resp.auth.sub, resp.category) :
            p.purpose = resp.auth.purpose /\ p.status = "GRANTED"


(* C8 as stated: once the policy of (subject, category, purpose) has been   *)
(* changed to REVOKED or RESTRICTED, or deleted, every later query on that   *)
(* category and purpose is denied.                                            *)
C8_DeniedEverAfter ==
    resp.status = 200 =>
        <<resp.auth.sub, resp.category, resp.purpose>> \notin withdrawn

(* C8: a query returns a result only if, when its policies are evaluated,   *)
(* the subject has a row for the category and the purpose of the request     *)
(* and no such row is REVOKED or RESTRICTED; a valid token issued while the  *)
(* policy was GRANTED does not change that.                                   *)
C8_LiveRowDecides ==
    resp.status = 200 =>
        LET rows == {p \in PoliciesOf(resp.auth.sub, resp.category) :
                        p.purpose = resp.purpose}
        IN  rows # {} /\ \A p \in rows : p.status \notin {"REVOKED", "RESTRICTED"}

(* A token issued under a GRANTED policy, still stored, unexpired and       *)
(* unrevoked, is refused because the row is RESTRICTED by now                *)
C8_Witness ==
    /\ resp.code = "CONSENT_RESTRICTED"
    /\ resp.purpose = resp.auth.purpose
    /\ \E i \in StoredTokens(consentTokens, resp.auth) :
          ~consentTokens[i].revoked /\ ~(consentTokens[i].expiresAt < now)

----------------------------------------------------------------------------
(* SpecLife: tokens are issued, revoked and presented while the subject      *)
(* grants, withdraws and deletes the policy and the clock runs.              *)

LifeClock == {0, 60500}

InitLife == now = 0 /\ EmptyStore

NextLife ==
    \/ \E u \in Users, st \in Statuses :
          UpsertUserPolicy(u, "health", "research", <<read, aggregate>>, st, Null)
    \/ \E u \in Users, id \in PolicyIds : DeleteUserPolicy(u, id)
    \/ \E u \in Users :
          /\ Len(consentTokens) < MaxTokens
          /\ IssueRoute(u, "research", <<"health">>, <<read, aggregate>>, 2)
    \/ \E u \in Users, id \in 1..MaxTokens : RevokeRoute(u, id)
    \/ \E u \in Users, id \in 1..MaxTokens : RevokeConsentToken(u, id)
    \/ \E t \in LifeClock : Tick(t)
    \/ \E a \in {s.jwt : s \in signed} : Query("key1", a, "health", "research", "none")

SpecLife == InitLife /\ [][NextLife]_vars

(* C7: a token row is stored with revoked = false, and no step of the       *)
(* system removes a row or sets the revoked flag of a row back to false.     *)
C7_RevokedMonotonic ==
    [][/\ \A i \in 1..Len(consentTokens) :
              consentTokens[i].revoked =>
                  (i <= Len(consentTokens') /\ consentTokens'[i].revoked)
       /\ \A i \in 1..Len(consentTokens') :
              i > Len(consentTokens) => ~consentTokens'[i].revoked]_vars

(* A revoked row was refused by a query after a later token was stored *)
C7_Witness ==
    /\ resp.code = "TOKEN_REVOKED"
    /\ \E i, j \in 1..Len(consentTokens) :
          i < j /\ consentTokens[i].revoked /\ ~consentTokens[j].revoked

----------------------------------------------------------------------------
(* SpecVerify: the token service called directly.  Tokens are issued, the    *)
(* clock runs, and verifyConsentToken is given issued tokens, tokens signed   *)
(* with the secret whose payload lacks or mistypes a claim, tokens with an    *)
(* altered last segment, and strings that are no tokens.                      *)

VerTokens == 2
VerClock == {0, 59999, 60000, 60001, 119000, 119500}
TokenCodes == {"MALFORMED", "INVALID", "EXPIRED", "VERIFICATION_FAILED"}

(* issueConsentToken(params) *)
IssueConsentToken(user, purpose, categories, scopes, ttlMinutes) ==
    LET r == _issueToken(user, purpose, categories, scopes, ttlMinutes, now)
    IN  /\ signed' = signed \cup {[jwt |-> r, path |-> "library", checked |-> FALSE]}
        /\ ret' = [fn |-> "issueConsentToken", token |-> r, exp |-> r.exp]
        /\ resp' = NoResp
        /\ UNCHANGED <<now, consentTokens, consentPolicies, rateLimitBuckets,
                       withdrawn, rlLog, calls>>

(* The tokens made from an issued one *)
Forgeries(tok) ==
    {tok, [tok EXCEPT !.sig = FALSE]}
    \cup {[tok EXCEPT !.missing = {c}] : c \in RequiredClaims}
    \cup {[tok EXCEPT !.mistyped = {c}] : c \in RequiredClaims}

VerifyConsentTokenCall(auth) ==
    /\ ret' = [fn |-> "verifyConsentToken", token |-> auth,
               thrown |-> VerifyThrown(auth, now)]
    /\ resp' = NoResp
    /\ UNCHANGED <<now, consentTokens, consentPolicies, rateLimitBuckets, signed,
                   withdrawn, rlLog, calls>>

InitVerify == now = 0 /\ EmptyStore

NextVerify ==
    \/ \E u \in Users, ttl \in {1, 2} :
          /\ Cardinality(signed) < VerTokens
          /\ IssueConsentToken(u, "research", <<"health">>, <<read, aggregate>>, ttl)
    \/ \E t \in VerClock : Tick(t)
    \/ \E a \in {Empty, Garbage} \cup UNION {Forgeries(x.jwt) : x \in signed} :
          VerifyConsentTokenCall(a)

SpecVerify == InitVerify /\ [][NextVerify]_vars

(* The exp of a token lies before, after the clock *)
Unexpired(auth) == now < auth.exp * MsPerSec
ExpPassed(auth) == now > auth.exp * MsPerSec

(* C11: verifyConsentToken fails with MALFORMED on the empty string and on  *)
(* a string that is not three segments, with VERIFICATION_FAILED on a        *)
(* signature that does not match, with EXPIRED on a correctly signed token   *)
(* whose exp has passed, and with INVALID on a correctly signed unexpired    *)
(* token that lacks or mistypes a required field.                            *)
C11_ClassifiedByCondition ==
    ret.fn = "verifyConsentToken" =>
        LET a == ret.token
            code == ret.thrown.code
            wrong == a.missing \cup a.mistyped
        IN  /\ a.kind \in {"empty", "garbage"} => code = "MALFORMED"
            /\ (a.kind = "jwt" /\ ~a.sig) => code = "VERIFICATION_FAILED"
            /\ (a.kind = "jwt" /\ a.sig /\ "exp" \notin wrong /\ ExpPassed(a))
                  => code = "EXPIRED"
            /\ (a.kind = "jwt" /\ a.sig /\ "exp" \notin wrong /\ Unexpired(a)
                  /\ wrong # {}) => code = "INVALID"

(* C12: a call of verifyConsentToken returns a payload that has every       *)
(* required claim, or throws a ConsentTokenError with one of the four codes; *)
(* nothing else is thrown.                                                    *)
C12_FourCodes ==
    ret.fn = "verifyConsentToken" =>
        \/ /\ ret.thrown.name = ""
           /\ ret.token.kind = "jwt" /\ ret.token.sig
           /\ ret.token.missing \cup ret.token.mistyped = {}
        \/ /\ ret.thrown.name = "ConsentTokenError"
           /\ ret.thrown.code \in TokenCodes

(* jose refused a string that has no three segments with an error whose     *)
(* message names neither exp nor signature                                   *)
C12_Witness ==
    /\ ret.fn = "verifyConsentToken"
    /\ ret.token.kind = "garbage"
    /\ ret.thrown = ConsentTokenError("VERIFICATION_FAILED")

----------------------------------------------------------------------------
(* The wire form of a token payload: lib/jwt.ts decodeConsentToken.  Text   *)
(* is a sequence of character codes here, so that the payload segment that   *)
(* jose writes (base64url of the UTF-8 bytes of the JSON text) and the one   *)
(* atob and JSON.parse read can be computed byte by byte.                     *)

(* The characters of the strings of the model *)
Spell ==
    "alice" :> <<97, 108, 105, 99, 101>> @@
    "research" :> <<114, 101, 115, 101, 97, 114, 99, 104>> @@
    "marketing" :> <<109, 97, 114, 107, 101, 116, 105, 110, 103>> @@
    "ok?" :> <<111, 107, 63>> @@
    "santé" :> <<115, 97, 110, 116, 233>> @@
    "health" :> <<104, 101, 97, 108, 116, 104>> @@
    "location" :> <<108, 111, 99, 97, 116, 105, 111, 110>> @@
    "read" :> <<114, 101, 97, 100>> @@
    "aggregate" :> <<97, 103, 103, 114, 101, 103, 97, 116, 101>> @@
    ":health:vitals" :> <<58, 104, 101, 97, 108, 116, 104, 58, 118, 105, 116, 97, 108, 115>> @@
    "purpose" :> <<112, 117, 114, 112, 111, 115, 101>> @@
    "categories" :> <<99, 97, 116, 101, 103, 111, 114, 105, 101, 115>> @@
    "scopes" :> <<115, 99, 111, 112, 101, 115>> @@
    "sub" :> <<115, 117, 98>> @@
    "iat" :> <<105, 97, 116>> @@
    "exp" :> <<101, 120, 112>>

(* A scope, text in fragments, as character codes *)
SpellScope(scope) == Concat([i \in 1..Len(scope) |-> Spell[scope[i]]])

RECURSIVE Digits(_)
Digits(n) == IF n < 10 THEN <<48 + n>> ELSE Digits(n \div 10) \o <<48 + (n % 10)>>

(* JSON.stringify of a string without quotes, backslashes or control        *)
(* characters, of an array of such strings, of a member                      *)
JsonString(text) == <<34>> \o text \o <<34>>

JsonArray(texts) ==
    <<91>> \o
    Concat([i \in 1..Len(texts) |->
              (IF i > 1 THEN <<44>> ELSE <<>>) \o JsonString(texts[i])])
    \o <<93>>

JsonMember(key, value) == JsonString(Spell[key]) \o <<58>> \o value

(* The claims set in the order SignJWT holds it: the constructor's object,  *)
(* then sub, iat, exp.  A payload is a record of texts and numbers.          *)
PayloadJson(payload) ==
    <<123>> \o JsonMember("purpose", JsonString(payload.purpose))
    \o <<44>> \o JsonMember("categories", JsonArray(payload.categories))
    \o <<44>> \o JsonMember("scopes", JsonArray(payload.scopes))
    \o <<44>> \o JsonMember("sub", JsonString(payload.sub))
    \o <<44>> \o JsonMember("iat", Digits(payload.iat))
    \o <<44>> \o JsonMember("exp", Digits(payload.exp))
    \o <<125>>

(* The payload of a token record, its strings spelled out *)
PayloadOf(token) ==
    [purpose |-> Spell[token.purpose],
     categories |-> [i \in 1..Len(token.categories) |-> Spell[token.categories[i]]],
     scopes |-> [i \in 1..Len(token.scopes) |-> SpellScope(token.scopes[i])],
     sub |-> Spell[token.sub], iat |-> token.iat, exp |-> token.exp]

(* TextEncoder: the UTF-8 bytes of a text of code points below 2048 *)
Utf8(text) ==
    Concat([i \in 1..Len(text) |->
              IF text[i] < 128 THEN <<text[i]>>
              ELSE <<192 + (text[i] \div 64), 128 + (text[i] % 64)>>])

(* base64url without padding: the 6-bit values of the characters.  Values   *)
(* 0..61 are the same characters as in base64; 62 is "-" and 63 is "_".      *)
Base64Url(b) ==
    LET B(i) == IF i <= Len(b) THEN b[i] ELSE 0
    IN  [k \in 1..((4 * Len(b) + 2) \div 3) |->
            LET g == (k - 1) \div 4
                b1 == B(3 * g + 1)
                b2 == B(3 * g + 2)
                b3 == B(3 * g + 3)
            IN  CASE (k - 1) % 4 = 0 -> b1 \div 4
                  [] (k - 1) % 4 = 1 -> (b1 % 4) * 16 + (b2 \div 16)
                  [] (k - 1) % 4 = 2 -> (b2 % 16) * 4 + (b3 \div 64)
                  [] OTHER -> b3 % 64]

(* The bytes of a sequence of 6-bit values, four values to three bytes; the *)
(* bits left over in the last group are dropped                              *)
Base64Bytes(v) ==
    LET V(i) == IF i <= Len(v) THEN v[i] ELSE 0
    IN  [k \in 1..((3 * Len(v)) \div 4) |->
            LET g == (k - 1) \div 3
                v1 == V(4 * g + 1)
                v2 == V(4 * g + 2)
                v3 == V(4 * g + 3)
                v4 == V(4 * g + 4)
            IN  CASE (k - 1) % 3 = 0 -> v1 * 4 + (v2 \div 16)
                  [] (k - 1) % 3 = 1 -> (v2 % 16) * 16 + (v3 \div 4)
                  [] OTHER -> (v3 % 4) * 64 + v4]

(* atob: forgiving base64 decoding to a string of one character per byte;   *)
(* Null when it throws: on a character outside the base64 alphabet, which    *)
(* "-" and "_" are, and on a length of 1 modulo 4.                           *)
atob(v) ==
    IF \E i \in 1..Len(v) : v[i] \in {62, 63} THEN Null
    ELSE IF Len(v) % 4 = 1 THEN Null
    ELSE Some(Base64Bytes(v))

(* The texts a parsed payload can hold: those of the model, and what they   *)
(* read as when each UTF-8 byte is taken for a character                     *)
ParsedTexts(names) == {Spell[n] : n \in names} \cup {Utf8(Spell[n]) : n \in names}

ParsedLists(lists) ==
    lists \cup {[i \in 1..Len(l) |-> Utf8(l[i])] : l \in lists}

(* SpecDecode: issueConsentToken, then decodeConsentToken on its token *)

DecTokens == 1
DecClock == {0, 59500}
DecTtls == {1, 2}
DecPurposes == {"research", "ok?", "santé"}
DecCategoryLists == {<<>>, <<"health">>, <<"health", "location">>}
DecScopeLists == {<<>>, <<read>>, <<read, aggregate>>}

(* The payloads JSON.parse can return on the texts of SpecDecode *)
ParsedPayloads ==
    [purpose : ParsedTexts(DecPurposes),
     categories : ParsedLists({[i \in 1..Len(l) |-> Spell[l[i]]] : l \in DecCategoryLists}),
     scopes : ParsedLists({[i \in 1..Len(l) |-> SpellScope(l[i])] : l \in DecScopeLists}),
     sub : ParsedTexts(Users),
     iat : {Floor(t, MsPerSec) : t \in DecClock},
     exp : {Floor(t, MsPerSec) + m * SecPerMin : t \in DecClock, m \in DecTtls}]

(* JSON.parse of a payload text: the payload that is written as that text,  *)
(* Null when there is none                                                    *)
ParsePayload(text) ==
    LET found == {q \in ParsedPayloads : PayloadJson(q) = text}
    IN  IF found = {} THEN Null ELSE Some(CHOOSE q \in found : TRUE)

(* decodeConsentToken: JSON.parse(atob(parts[1])), null when there are not  *)
(* three parts or when atob or JSON.parse throws                             *)
decodeConsentToken(token) ==
    IF token.kind # "jwt" THEN Null
    ELSE LET segment == Base64Url(Utf8(PayloadJson(PayloadOf(token))))
         IN  IF atob(segment) = Null THEN Null
             ELSE ParsePayload(atob(segment)[1])

DecodeConsentTokenCall(token) ==
    /\ ret' = [fn |-> "decodeConsentToken", token |-> token,
               payload |-> decodeConsentToken(token)]
    /\ resp' = NoResp
    /\ UNCHANGED <<now, consentTokens, consentPolicies, rateLimitBuckets, signed,
                   withdrawn, rlLog, calls>>

InitDecode == now = 0 /\ EmptyStore

NextDecode ==
    \/ \E u \in Users, pu \in DecPurposes, cs \in DecCategoryLists,
          ss \in DecScopeLists, ttl \in DecTtls :
          /\ Cardinality(signed) < DecTokens
          /\ IssueConsentToken(u, pu, cs, ss, ttl)
    \/ \E t \in DecClock : Tick(t)
    \/ \E x \in signed : DecodeConsentTokenCall(x.jwt)

SpecDecode == InitDecode /\ [][NextDecode]_vars

(* C14: decodeConsentToken of an issued token yields a payload with the     *)
(* sub, purpose, categories and scopes given to issueConsentToken and the    *)
(* exp it returned, empty lists included.                                     *)
C14_RoundTrip ==
    ret.fn = "decodeConsentToken" =>
        /\ ret.payload # Null
        /\ ret.payload[1].sub = Spell[ret.token.sub]
        /\ ret.payload[1].purpose = Spell[ret.token.purpose]
        /\ ret.payload[1].categories = PayloadOf(ret.token).categories
        /\ ret.payload[1].scopes = PayloadOf(ret.token).scopes
        /\ ret.payload[1].exp = ret.token.exp

----------------------------------------------------------------------------
(* SpecEnsure: ensureConsentAllowed called directly while the subject edits *)
(* the policies of two categories for one purpose.                            *)

EnsClock == {0, 60500}
EnsCategoryLists == {<<"health">>, <<"health", "location">>}
EnsScopeLists == {<<read, aggregate>>, <<read>>}

EnsureConsentAllowedCall(userId, categories, purpose, scopes) ==
    /\ \E code \in ensureConsentAllowed(consentPolicies, userId, categories, purpose,
                                        scopes, now, "none") :
          ret' = [fn |-> "ensureConsentAllowed", userId |-> userId,
                  categories |-> categories, purpose |-> purpose, scopes |-> scopes,
                  code |-> code,
                  named |-> IF code = "MISSING_CONSENT_POLICY"
                            THEN MissingCategories(consentPolicies, userId, categories,
                                                   purpose)
                            ELSE <<>>]
    /\ resp' = NoResp
    /\ UNCHANGED <<now, consentTokens, consentPolicies, rateLimitBuckets, signed,
                   withdrawn, rlLog, calls>>

InitEnsure == now = 0 /\ EmptyStore

NextEnsure ==
    \/ \E u \in Users, c \in Categories, f \in PolProfiles :
          UpsertUserPolicy(u, c, "research", f[1], f[2], f[3])
    \/ \E u \in Users, id \in PolicyIds, f \in PolProfiles :
          UpdatePolicyById(u, id, "research", f[1], f[2], f[3])
    \/ \E u \in Users, id \in PolicyIds : DeleteUserPolicy(u, id)
    \/ \E t \in EnsClock : Tick(t)
    \/ \E u \in Users, cs \in EnsCategoryLists, ss \in EnsScopeLists :
          EnsureConsentAllowedCall(u, cs, "research", ss)

SpecEnsure == InitEnsure /\ [][NextEnsure]_vars

(* The row is GRANTED, not past its expiry, and its scope list holds every  *)
(* scope of the list                                                          *)
RowAllows(p, scopes) ==
    /\ p.status = "GRANTED"
    /\ (p.expiresAt = Null \/ ~(p.expiresAt[1] < now))
    /\ \A i \in 1..Len(scopes) : ArrayIncludes(JSONparse(p.scopes), scopes[i])

(* C15: ensureConsentAllowed succeeds exactly when every requested category *)
(* has a matching row and every matching row is GRANTED, not past its        *)
(* expiry and grants every required scope; when it fails on a row, a         *)
(* matching row violates the rule of the code.                               *)
C15_SucceedsIffAllRowsAllow ==
    ret.fn = "ensureConsentAllowed" =>
        LET rows == MatchingPolicies(consentPolicies, ret.userId, ret.categories,
                                     ret.purpose)
            covered == \A i \in 1..Len(ret.categories) :
                           \E p \in rows : p.category = ret.categories[i]
        IN  /\ ret.code = "OK" <=> (covered /\ \A p \in rows : RowAllows(p, ret.scopes))
            /\ ret.code = "MISSING_CONSENT_POLICY" => ~covered
            /\ ret.code = "CONSENT_REVOKED" => \E p \in rows : p.status = "REVOKED"
            /\ ret.code = "CONSENT_RESTRICTED" => \E p \in rows : p.status = "RESTRICTED"
            /\ ret.code = "CONSENT_EXPIRED" =>
                  \E p \in rows : p.expiresAt # Null /\ p.expiresAt[1] < now
            /\ ret.code = "INSUFFICIENT_SCOPES" =>
                  \E p \in rows : \E i \in 1..Len(ret.scopes) :
                      ~ArrayIncludes(JSONparse(p.scopes), ret.scopes[i])

----------------------------------------------------------------------------
(* SpecEps: the aggregation results of POST /api/pdp/query.  An epsilon is   *)
(* a fraction <<numerator, denominator>> of hundredths, so that              *)
(* epsilon / aggregations.length is exact.                                    *)

MaxAggregations == 2
Aggregations == {"mean", "count", "sum", "min", "max"}
AggregationLists == UNION {[1..n -> Aggregations] : n \in 0..MaxAggregations}
Epsilons == {1, 100, 1000}                      \* 0.01, the default 1.0, 10
(* A payload is the sequence of the values of its fields.  A field value is *)
(* a number, a string, or an array or object (typeof "object"); leaves are   *)
(* the numbers it holds at any depth.                                        *)
NumberField(n) == [type |-> "number", leaves |-> <<n>>]
StringField == [type |-> "string", leaves |-> <<>>]
ObjectField(numbers) == [type |-> "object", leaves |-> numbers]

Note == <<StringField>>                            \* { note: "..." }
Vitals == <<NumberField(70), StringField>>         \* { heartRate: 70, bloodPressure: "120/80" }
SampleSets == {<<>>, <<Note>>, <<Vitals>>, <<Vitals, Note>>}

(* extractNumericValues: the values of the fields of the payloads that are  *)
(* numbers, in the order of the records and of their fields                  *)
extractNumericValues(sampleData) ==
    Concat([i \in 1..Len(sampleData) |->
              Concat([j \in 1..Len(sampleData[i]) |->
                        IF sampleData[i][j].type = "number"
                        THEN sampleData[i][j].leaves
                        ELSE <<>>])])

(* The noised outputs of the response: key and the epsilon given to          *)
(* laplaceMechanism or dpMean for it.  count is noised first with epsilon;   *)
(* with no record the handler returns; otherwise every other requested       *)
(* aggregation that has values is noised with epsilon / aggregations.length. *)
NoisedOutputs(aggregations, epsilon, sampleData) ==
    {[key |-> "count", epsilon |-> <<epsilon, 1>>]} \cup
    (IF Len(sampleData) = 0 \/ extractNumericValues(sampleData) = <<>> THEN {}
     ELSE {[key |-> aggregations[i], epsilon |-> <<epsilon, Len(aggregations)>>] :
              i \in {j \in 1..Len(aggregations) : aggregations[j] # "count"}})

ComputeResults(aggregations, epsilon, sampleData) ==
    /\ ret' = [fn |-> "results", aggregations |-> aggregations, epsilon |-> epsilon,
               sampleData |-> sampleData,
               outputs |-> NoisedOutputs(aggregations, epsilon, sampleData)]
    /\ resp' = NoResp
    /\ UNCHANGED <<now, consentTokens, consentPolicies, rateLimitBuckets, signed,
                   withdrawn, rlLog, calls>>

InitEps == now = 0 /\ EmptyStore

NextEps ==
    \E a \in AggregationLists, e \in Epsilons, d \in SampleSets : ComputeResults(a, e, d)

SpecEps == InitEps /\ [][NextEps]_vars

(* The sum of the epsilons of a set of outputs, in units of 1 / scale *)
RECURSIVE EpsilonSum(_, _)
EpsilonSum(outputs, scale) ==
    IF outputs = {} THEN 0
    ELSE LET o == CHOOSE x \in outputs : TRUE
         IN  (o.epsilon[1] * scale) \div o.epsilon[2] + EpsilonSum(outputs \ {o}, scale)

(* C16: the epsilons applied to the noised outputs of one response add up   *)
(* to at most the epsilon of the request.                                     *)
C16_EpsilonBudget ==
    ret.fn = "results" =>
        LET scale == IF ret.aggregations = <<>> THEN 1 ELSE Len(ret.aggregations)
        IN  EpsilonSum(ret.outputs, scale) <= ret.epsilon * scale

-----------------------------------------------------------------------------
(* SpecQuery: POST /api/pdp/query with categories inside and outside the     *)
(* catalog, against a standing policy and one issued token                   *)

QryTokens == 1
QryClock == {0, 60000}
QryCategories == {"health", "unknown", ""}

InitQuery == InitTok

NextQuery ==
    \/ \E u \in Users :
          /\ Len(consentTokens) < QryTokens
          /\ IssueRoute(u, "research", <<"health">>, <<read, aggregate>>, 1)
    \/ \E t \in QryClock : Tick(t)
    \/ \E q \in TokQueries, a \in Presentable, c \in QryCategories :
          Query(q[1], a, c, "research", q[2])

SpecQuery == InitQuery /\ [][NextQuery]_vars

(* The stages the last request ran *)
Reached(stage) == \E i \in 1..Len(resp.stages) : resp.stages[i] = stage

(* C17: a query by an authenticated, rate-allowed caller with a valid token  *)
(* whose category is not in the catalog is answered 400 with the             *)
(* unknown-category error.                                                   *)
C17_UnknownCategoryIs400 ==
    (/\ Reached("body")
     /\ resp.category # ""
     /\ resp.category \notin Categories
     /\ resp.threw = "none")
    => (resp.status = 400 /\ resp.code = "NOT_FOUND")

(* C18: a failure of the access-log write, or of the token-id lookup made    *)
(* for it, leaves the response what it is when logging succeeds: the 200     *)
(* response with the results.                                                *)
C18_LogFailureInvisible ==
    resp.threw \in {"tokenId", "log"}
    => (/\ resp.status = 200
        /\ resp.code = "OK"
        /\ resp.results
        /\ resp.retryAfter = Null
        /\ Reached("noise"))

C18_Witness ==
    /\ resp.threw = "log"
    /\ resp.status = 200
    /\ resp.auth.kind = "jwt"

(* The order of the stages the specification gives *)
StageOrder == <<"apiClient", "rateLimit", "token", "policy", "category", "fetch", "noise">>

InStageOrder(stage) == \E i \in 1..Len(StageOrder) : StageOrder[i] = stage

(* C20: the stages of a request are a prefix of the order API key, rate      *)
(* limit, token, policy, category, fetch, noise; the request ends at the     *)
(* first stage that fails, so that only a 200 response reaches the noise; a  *)
(* rate-limited request is answered 429 with a Retry-After header and ends   *)
(* at the rate-limit check.                                                  *)
C20_StagesInOrder ==
    LET ran == SelectSeq(resp.stages, InStageOrder)
    IN  resp.stages # <<>> =>
        /\ ran = SubSeq(StageOrder, 1, Len(ran))
        /\ (resp.status = 200) = (ran = StageOrder)
        /\ resp.status = 401 => ran = <<"apiClient">>
        /\ resp.status = 429 =>
              /\ ran = <<"apiClient", "rateLimit">>
              /\ resp.retryAfter # Null
        /\ resp.code \in {"TOKEN_EXPIRED", "TOKEN_REVOKED", "TOKEN_NOT_FOUND",
                          "TOKEN_VERIFICATION_FAILED", "AUTH_HEADER_REQUIRED",
                          "CONSENT_TOKEN_FAILED"}
              => ran = SubSeq(StageOrder, 1, 3)
        /\ resp.code \in {"MISSING_CONSENT_POLICY", "CONSENT_VALIDATION_FAILED"}
              => ran = SubSeq(StageOrder, 1, 4)
        /\ resp.code = "NOT_FOUND" => ran = SubSeq(StageOrder, 1, 5)
        /\ resp.threw = "category" => ran = SubSeq(StageOrder, 1, 5)
        /\ resp.threw = "fetch" => ran = SubSeq(StageOrder, 1, 6)

C20_Witness ==
    /\ resp.status = 429
    /\ resp.retryAfter # Null
    /\ resp.auth.kind = "jwt"
    /\ resp.stages = <<"apiClient", "rateLimit">>

-----------------------------------------------------------------------------
(* SpecRetry: one caller checks the rate limit, is denied, and checks again  *)
(* before and after the retryAfter it was given                              *)

RetryCalls == 5
RetryClock == {0, 59001, 60000, 60001, 120000}
RetryFails == {"none", "find"}

RetryCheckRateLimitCall(apiKey, fail) ==
    LET r == checkRateLimit(rateLimitBuckets, apiKey, Endpoint, now, fail)
    IN  /\ Len(rlLog) < RetryCalls
        /\ rateLimitBuckets' = r.buckets
        /\ rlLog' = Append(rlLog, [apiKey |-> apiKey,
                                   windowStart |-> WindowStart(now, Endpoint),
                                   t |-> now, result |-> r.result])
        /\ resp' = NoResp /\ ret' = NoRet
        /\ UNCHANGED <<now, consentTokens, consentPolicies, signed, withdrawn, calls>>

InitRetry == now = 0 /\ EmptyStore

NextRetry ==
    \/ \E f \in RetryFails : RetryCheckRateLimitCall("key1", f)
    \/ \E t \in RetryClock : Tick(t)

SpecRetry == InitRetry /\ [][NextRetry]_vars

(* The denials of rlLog *)
Denials == {i \in 1..Len(rlLog) : ~rlLog[i].result.allowed}

(* The time the denial rlLog[i] tells its caller to wait until *)
RetryAt(i) == rlLog[i].t + rlLog[i].result.retryAfter[1] * MsPerSec

(* rlLog[j] is the first check of the caller of rlLog[i] at or after RetryAt(i) *)
FirstCheckAfter(i, j) ==
    /\ j > i
    /\ rlLog[j].apiKey = rlLog[i].apiKey
    /\ rlLog[j].t >= RetryAt(i)
    /\ \A k \in (i + 1)..(j - 1) :
          rlLog[k].apiKey = rlLog[i].apiKey => rlLog[k].t < RetryAt(i)

(* rlLog[j] is the first check of its caller in its window *)
FirstCheckOfWindow(j) ==
    \A k \in 1..(j - 1) :
        ~(rlLog[k].apiKey = rlLog[j].apiKey /\ rlLog[k].windowStart = rlLog[j].windowStart)

RetryAfterInRange(i) ==
    /\ rlLog[i].result.retryAfter # Null
    /\ rlLog[i].result.retryAfter[1] >= 1
    /\ rlLog[i].result.retryAfter[1] * MsPerSec <= RATE_LIMIT_CONFIG(Endpoint).windowMs

-----------------------------------------------------------------------------
(* The bucket table against the history of serial calls (SpecLim) *)

(* The number of calls of rlLog for apiKey in the window ws that were allowed *)
AllowedCallsIn(apiKey, ws) ==
    Len(SelectSeq(CallsIn(apiKey, ws), LAMBDA e : e.result.allowed))

(* The requestCount stored for apiKey in the window ws, 0 without a bucket *)
RequestCount(apiKey, ws) ==
    LET found == FindBucket(rateLimitBuckets, apiKey, Endpoint, ws)
    IN  IF found = {} THEN 0 ELSE (CHOOSE b \in found : TRUE).requestCount

(* C21: with serial calls and no store failure in a window, the bucket's    *)
(* requestCount equals the number of calls of that window that returned      *)
(* allowed = true (no bucket exists before the first), so that an allowed    *)
(* call raises it by one and a denied call leaves it unchanged.              *)
C21_CountIsAllowedCalls ==
    \A k \in ApiKeys, ws \in {WindowStart(t, Endpoint) : t \in LimClock} :
        NoFailureIn(k, ws) =>
            /\ RequestCount(k, ws) = AllowedCallsIn(k, ws)
            /\ Cardinality(FindBucket(rateLimitBuckets, k, Endpoint, ws))
                  = (IF CallsIn(k, ws) = <<>> THEN 0 ELSE 1)

(* A window took its ceiling of allowed calls and then a denied one *)
C21_Witness ==
    \E k \in ApiKeys, ws \in {WindowStart(t, Endpoint) : t \in LimClock} :
        /\ NoFailureIn(k, ws)
        /\ Len(CallsIn(k, ws)) = Requests + 1
        /\ ~CallsIn(k, ws)[Requests + 1].result.allowed
        /\ RequestCount(k, ws) = Requests

-----------------------------------------------------------------------------
(* The order of the checks of ensureConsentAllowed (SpecEnsure) *)

(* The requested categories of the last call for which the subject holds no *)
(* policy row for the purpose                                                 *)
Uncovered ==
    SelectSeq(ret.categories,
              LAMBDA cat : ~\E p \in consentPolicies :
                              /\ p.userId = ret.userId
                              /\ p.purpose = ret.purpose
                              /\ p.category = cat)

(* C22: when a requested category has no matching policy row, the call      *)
(* fails with MISSING_CONSENT_POLICY naming every such category, whatever    *)
(* the status, expiry and scopes of the rows that exist.                     *)
C22_MissingReportedFirst ==
    (ret.fn = "ensureConsentAllowed" /\ Uncovered # <<>>)
    => (ret.code = "MISSING_CONSENT_POLICY" /\ ret.named = Uncovered)

(* health has a REVOKED row, location has none: location is reported *)
C22_Witness ==
    /\ ret.fn = "ensureConsentAllowed"
    /\ ret.categories = <<"health", "location">>
    /\ ret.code = "MISSING_CONSENT_POLICY"
    /\ ret.named = <<"location">>
    /\ \E p \in consentPolicies :
          /\ p.userId = ret.userId
          /\ p.purpose = ret.purpose
          /\ p.category = "health"
          /\ p.status = "REVOKED"

(* The orders findMany can return the rows in *)
Orders(rows) ==
    {o \in [1..Cardinality(rows) -> rows] :
        \A i, j \in 1..Cardinality(rows) : o[i] = o[j] => i = j}

(* A loop that looks at the first row only *)
EvaluateFirstRow(order, scopes, t) ==
    IF order = <<>> THEN "OK" ELSE PolicyError(order[1], scopes, t)

(* for (const policy of consentPolicies): the first row that fails throws *)
EvaluateRows(order, scopes, t) ==
    LET failing == {i \in 1..Len(order) : PolicyError(order[i], scopes, t) # "OK"}
    IN  IF failing = {} THEN "OK"
        ELSE PolicyError(order[CHOOSE i \in failing : \A j \in failing : i <= j],
                         scopes, t)

(* C23: for the rows matching a call, the loop ends the same way, allowed   *)
(* or denied, in every order of the rows; the outcome of the call is that    *)
(* of one of the orders.                                                     *)
C23_OrderIndependent ==
    (ret.fn = "ensureConsentAllowed" /\ ret.code # "MISSING_CONSENT_POLICY") =>
        LET rows == MatchingPolicies(consentPolicies, ret.userId, ret.categories,
                                     ret.purpose)
        IN  /\ \A o1, o2 \in Orders(rows) :
                  (EvaluateRows(o1, ret.scopes, now) = "OK")
                      = (EvaluateRows(o2, ret.scopes, now) = "OK")
            /\ \E o \in Orders(rows) : ret.code = EvaluateRows(o, ret.scopes, now)

(* Two rows that fail differently: the order decides the code, not the denial *)
C23_Witness ==
    /\ ret.fn = "ensureConsentAllowed"
    /\ ret.code # "MISSING_CONSENT_POLICY"
    /\ LET rows == MatchingPolicies(consentPolicies, ret.userId, ret.categories,
                                    ret.purpose)
       IN  \E o1, o2 \in Orders(rows) :
              /\ EvaluateRows(o1, ret.scopes, now) # "OK"
              /\ EvaluateRows(o2, ret.scopes, now) # "OK"
              /\ EvaluateRows(o1, ret.scopes, now) # EvaluateRows(o2, ret.scopes, now)

-----------------------------------------------------------------------------
(* SpecAgg: the aggregation results of POST /api/pdp/query, lines 143-237,  *)
(* with the noise of lib/privacy/differentialPrivacy.  Numbers are counted   *)
(* in tenths; a number is finite with value v or is Infinity.  The values of *)
(* the payloads are whole numbers, so bounds and sums are exact; a mean and  *)
(* a scale are taken to the tenth.                                           *)

Tenth == 10
Finite(v) == [inf |-> FALSE, v |-> v]
Infinity == [inf |-> TRUE, v |-> 0]

Plus(a, b) == IF a.inf \/ b.inf THEN Infinity ELSE Finite(a.v + b.v)

(* Math.round: to the nearest integer, halves upwards *)
MathRound(a) == IF a.inf THEN a ELSE Finite(Floor(a.v + Tenth \div 2, Tenth) * Tenth)

(* Math.max(0, a) *)
MathMaxZero(a) == IF a.inf \/ a.v >= 0 THEN a ELSE Finite(0)

(* What Math.random() returned, by u = Math.random() - 0.5: the sign of u   *)
(* and Math.log(1 - 2 * Math.abs(u)), Null for -Infinity.  Math.random()     *)
(* returns a number in [0, 1); at 0, u is -0.5 and the logarithm is that of  *)
(* 0.  The other two are u = 0.316 (logarithm -1) and u = -0.475             *)
(* (logarithm -3).                                                            *)
RandomZero == [sign |-> -1, log |-> Null]
Randoms == {RandomZero, [sign |-> 1, log |-> Some(-1)], [sign |-> -1, log |-> Some(-3)]}

(* sampleLaplace: scale * Math.sign(u) * Math.log(1 - 2 * Math.abs(u)) for   *)
(* a scale above 0                                                            *)
sampleLaplace(scale, random) ==
    IF random.log = Null
    THEN Infinity
    ELSE Finite(scale * random.sign * random.log[1])

(* laplaceMechanism: value + noise of scale sensitivity / epsilon; Null when *)
(* it throws.  epsilon is <<e, n>>: e hundredths divided by n.               *)
laplaceMechanism(value, epsilon, sensitivity, random) ==
    IF epsilon[1] <= 0 \/ sensitivity <= 0 THEN Null
    ELSE Some(Plus(Finite(value),
                   sampleLaplace((sensitivity * 100 * epsilon[2]) \div epsilon[1], random)))

RECURSIVE SumOf(_)
SumOf(values) == IF values = <<>> THEN 0 ELSE Head(values) + SumOf(Tail(values))

MinOf(values) == CHOOSE x \in {values[i] : i \in 1..Len(values)} :
                    \A i \in 1..Len(values) : x <= values[i]
MaxOf(values) == CHOOSE x \in {values[i] : i \in 1..Len(values)} :
                    \A i \in 1..Len(values) : x >= values[i]

(* dpMean: Null when it throws *)
dpMean(values, epsilon, minValue, maxValue, random) ==
    IF Len(values) = 0 THEN Null
    ELSE IF epsilon[1] <= 0 THEN Null
    ELSE IF minValue >= maxValue THEN Null
    ELSE laplaceMechanism(SumOf(values) \div Len(values), epsilon,
                          (maxValue - minValue) \div Len(values), random)

(* estimateDataBounds, for a list of values that is not empty *)
estimateDataBounds(values, category) ==
    LET actualMin == MinOf(values)
        actualMax == MaxOf(values)
        range == actualMax - actualMin
        Least(a, b) == IF a < b THEN a ELSE b
        Most(a, b) == IF a > b THEN a ELSE b
    IN  CASE category = "health" ->
                [min |-> Least(actualMin, 0), max |-> Most(actualMax, 200 * Tenth)]
          [] category = "financial" ->
                [min |-> Least(actualMin, 0), max |-> Most(actualMax, 10000 * Tenth)]
          [] category = "location" ->
                [min |-> Least(actualMin, -180 * Tenth), max |-> Most(actualMax, 180 * Tenth)]
          [] OTHER ->
                [min |-> actualMin - range \div 10, max |-> actualMax + range \div 10]

(* The value the switch assigns to results[aggregation]: Null when the      *)
(* computation throws, Some(Null) for null, Some(Some(number)) otherwise     *)
AggregationValue(aggregation, values, epsilon, category, random) ==
    IF values = <<>> THEN Some(Null)
    ELSE LET noised ==
               CASE aggregation = "mean" ->
                       dpMean(values, epsilon,
                              estimateDataBounds(values, category).min,
                              estimateDataBounds(values, category).max, random)
                 [] aggregation = "sum" ->
                       laplaceMechanism(SumOf(values), epsilon, Tenth, random)
                 [] aggregation = "min" ->
                       laplaceMechanism(MinOf(values), epsilon, Tenth, random)
                 [] OTHER ->
                       laplaceMechanism(MaxOf(values), epsilon, Tenth, random)
         IN  IF noised = Null THEN Null ELSE Some(noised)

(* Lines 143-237: results.count, the return when there is no record, the    *)
(* loop over the aggregations (a later entry of the list overwrites an       *)
(* earlier one of the same name), and the response; an error thrown in the   *)
(* loop is answered 500 by handleApiError.  random[1] is drawn for the count *)
(* and random[i + 1] for aggregations[i].                                    *)
QueryResults(category, aggregations, epsilon, sampleData, random) ==
    LET values == [i \in 1..Len(extractNumericValues(sampleData)) |->
                      extractNumericValues(sampleData)[i] * Tenth]
        count == MathMaxZero(MathRound(
                     laplaceMechanism(Len(sampleData) * Tenth, <<epsilon, 1>>, Tenth,
                                      random[1])[1]))
        Assigned(i) == AggregationValue(aggregations[i], values,
                                        <<epsilon, Len(aggregations)>>, category,
                                        random[i + 1])
        computed == {i \in 1..Len(aggregations) : aggregations[i] # "count"}
        keys == {aggregations[i] : i \in computed}
        Last(k) == CHOOSE i \in computed :
                      /\ aggregations[i] = k
                      /\ \A j \in computed : aggregations[j] = k => j <= i
    IN  IF Len(sampleData) = 0
        THEN [status |-> 200, results |-> [k \in {"count"} |-> Some(count)]]
        ELSE IF \E i \in computed : Assigned(i) = Null
        THEN [status |-> 500, results |-> <<>>]
        ELSE [status |-> 200,
              results |-> [k \in keys \cup {"count"} |->
                              IF k = "count" THEN Some(count) ELSE Assigned(Last(k))[1]]]

Steps == <<ObjectField(<<8000, 7000>>)>>           \* { steps: [8000, 7000] }
Pulse == <<NumberField(80)>>                       \* { heartRate: 80 }
AggSampleSets == SampleSets \cup {<<Steps>>, <<Vitals, Vitals>>, <<Vitals, Pulse>>}
AggCategories == {"health", "marketing"}
RandomLists == [1..(MaxAggregations + 1) -> Randoms]

(* Every number the payloads hold, at any depth *)
NumericLeaves(sampleData) ==
    Concat([i \in 1..Len(sampleData) |->
              Concat([j \in 1..Len(sampleData[i]) |-> sampleData[i][j].leaves])])

(* The request and the records it finds, then the results computed for it *)
InitAgg ==
    /\ now = 0
    /\ consentTokens = <<>>
    /\ consentPolicies = {}
    /\ rateLimitBuckets = {}
    /\ signed = {}
    /\ withdrawn = {}
    /\ resp = NoResp
    /\ rlLog = <<>>
    /\ calls = [p \in Procs |-> IdleCall]
    /\ \E c \in AggCategories, a \in AggregationLists, e \in Epsilons,
          d \in AggSampleSets, r \in RandomLists :
          ret = [fn |-> "query", category |-> c, aggregations |-> a, epsilon |-> e,
                 sampleData |-> d, random |-> r, status |-> 0, results |-> <<>>]

Aggregate ==
    /\ ret.fn = "query"
    /\ LET out == QueryResults(ret.category, ret.aggregations, ret.epsilon,
                               ret.sampleData, ret.random)
       IN  ret' = [ret EXCEPT !.fn = "queryResults", !.status = out.status,
                              !.results = out.results]
    /\ UNCHANGED <<now, consentTokens, consentPolicies, rateLimitBuckets, signed,
                   withdrawn, resp, rlLog, calls>>

NextAgg == Aggregate

SpecAgg == InitAgg /\ [][NextAgg]_vars

(* C24: with no record, the response holds the count and nothing else, and  *)
(* the count is a whole number that is not negative.                         *)
C24_EmptySetCountOnly ==
    (ret.fn = "queryResults" /\ ret.sampleData = <<>> /\ ret.status = 200) =>
        /\ DOMAIN ret.results = {"count"}
        /\ ~ret.results["count"][1].inf
        /\ ret.results["count"][1].v >= 0
        /\ ret.results["count"][1].v % Tenth = 0

(* C25: for a record set that is not empty, each of mean, sum, min and max  *)
(* in the results is null exactly when the payloads hold no number; when     *)
(* they hold one, results.mean is not null.                                  *)
C25_NullIffNoNumericLeaf ==
    (ret.fn = "queryResults" /\ ret.sampleData # <<>> /\ ret.status = 200) =>
        \A k \in DOMAIN ret.results \ {"count"} :
            (ret.results[k] = Null) = (NumericLeaves(ret.sampleData) = <<>>)

(* C30: for a list of values that is not empty, estimateDataBounds returns  *)
(* bounds with min < max that enclose the values, and a request for the mean *)
(* does not fail.                                                            *)
C30_BoundsEncloseValues ==
    (ret.fn = "queryResults" /\ extractNumericValues(ret.sampleData) # <<>>) =>
        LET values == [i \in 1..Len(extractNumericValues(ret.sampleData)) |->
                          extractNumericValues(ret.sampleData)[i] * Tenth]
            bounds == estimateDataBounds(values, ret.category)
        IN  /\ bounds.min < bounds.max
            /\ \A i \in 1..Len(values) : bounds.min <= values[i] /\ values[i] <= bounds.max
            /\ ret.status = 200

-----------------------------------------------------------------------------
(* SpecClean: one caller checks the rate limit over more than a day while   *)
(* cleanupOldRateLimitBuckets runs with its default horizon                  *)

DefaultHours == 24

(* A cleanup that deletes every bucket that started before now *)
cleanupAllStartedBefore(buckets, olderThanHours, t, fail) ==
    IF fail THEN [count |-> 0, buckets |-> buckets]
    ELSE [count |-> Cardinality({b \in buckets : b.windowStart < t}),
          buckets |-> {b \in buckets : ~(b.windowStart < t)}]

(* cleanupOldRateLimitBuckets: deleteMany({ windowStart: { lt: cutoffTime } }) *)
(* with cutoffTime = now - olderThanHours * 60 * 60 * 1000; returns the       *)
(* number of deleted buckets, 0 when deleteMany throws.                       *)
cleanupOldRateLimitBuckets(buckets, olderThanHours, t, fail) ==
    LET cutoffTime == t - olderThanHours * MinPerHour * SecPerMin * MsPerSec
    IN  IF fail THEN [count |-> 0, buckets |-> buckets]
        ELSE [count |-> Cardinality({b \in buckets : b.windowStart < cutoffTime}),
              buckets |-> {b \in buckets : ~(b.windowStart < cutoffTime)}]

DayMs == DefaultHours * MinPerHour * SecPerMin * MsPerSec
CleanClock == {0, WindowMs, DayMs, DayMs + 1, DayMs + WindowMs + 1}

CleanCheckRateLimitCall(apiKey) ==
    /\ rateLimitBuckets' = checkRateLimit(rateLimitBuckets, apiKey, Endpoint, now,
                                          "none").buckets
    /\ resp' = NoResp /\ ret' = NoRet
    /\ UNCHANGED <<now, consentTokens, consentPolicies, signed, withdrawn, rlLog, calls>>

CleanupCall(fail) ==
    LET r == cleanupOldRateLimitBuckets(rateLimitBuckets, DefaultHours, now, fail)
    IN  /\ rateLimitBuckets' = r.buckets
        /\ ret' = [fn |-> "cleanupOldRateLimitBuckets", before |-> rateLimitBuckets,
                   count |-> r.count, failed |-> fail]
        /\ resp' = NoResp
        /\ UNCHANGED <<now, consentTokens, consentPolicies, signed, withdrawn, rlLog,
                       calls>>

InitClean == now = 0 /\ EmptyStore

NextClean ==
    \/ CleanCheckRateLimitCall("key1")
    \/ \E f \in BOOLEAN : CleanupCall(f)
    \/ \E t \in CleanClock : Tick(t)

SpecClean == InitClean /\ [][NextClean]_vars

(* C26: a cleanup with the default horizon that does not fail deletes the   *)
(* buckets whose windowStart is more than 24 hours before now and no other;  *)
(* no cleanup deletes a bucket of the current window, and every              *)
(* checkRateLimit from now on returns what it would have returned without    *)
(* the cleanup.                                                              *)
C26_CleanupKeepsCurrentWindow ==
    ret.fn = "cleanupOldRateLimitBuckets" =>
        /\ ~ret.failed =>
              /\ ret.before \ rateLimitBuckets
                    = {b \in ret.before : now - b.windowStart > DayMs}
              /\ ret.count = Cardinality(ret.before \ rateLimitBuckets)
        /\ rateLimitBuckets \subseteq ret.before
        /\ \A b \in ret.before \ rateLimitBuckets :
              b.windowStart # WindowStart(now, Endpoint)
        /\ \A t \in CleanClock :
              t >= now =>
                  checkRateLimit(rateLimitBuckets, "key1", Endpoint, t, "none").result
                      = checkRateLimit(ret.before, "key1", Endpoint, t, "none").result

(* A cleanup deleted the bucket of a window more than a day old and kept    *)
(* a younger one and the full bucket of the current window                   *)
C26_Witness ==
    /\ ret.fn = "cleanupOldRateLimitBuckets"
    /\ now = DayMs + 1
    /\ ret.count = 1
    /\ \E b \in ret.before \ rateLimitBuckets : b.windowStart = 0
    /\ \E b \in rateLimitBuckets : b.windowStart = WindowMs
    /\ \E b \in rateLimitBuckets :
          b.windowStart = WindowStart(now, Endpoint) /\ b.requestCount = Requests

-----------------------------------------------------------------------------
(* SpecCross: the subject holds GRANTED policies for health and location    *)
(* and issues a token for health; queries ask for either category            *)

CrossTokens == 1
CrossClock == {0, 60000}

LocationPolicy == [StandingPolicy EXCEPT !.id = 2, !.category = "location"]

InitCross ==
    /\ now = 0
    /\ consentTokens = <<>>
    /\ consentPolicies = {StandingPolicy, LocationPolicy}
    /\ rateLimitBuckets = {}
    /\ signed = {}
    /\ withdrawn = {}
    /\ resp = NoResp
    /\ ret = NoRet
    /\ rlLog = <<>>
    /\ calls = [p \in Procs |-> IdleCall]

NextCross ==
    \/ \E u \in Users :
          /\ Len(consentTokens) < CrossTokens
          /\ IssueRoute(u, "research", <<"health">>, <<read, aggregate>>, 1)
    \/ \E t \in CrossClock : Tick(t)
    \/ \E q \in TokQueries, a \in Presentable, c \in Categories :
          Query(q[1], a, c, "research", q[2])

SpecCross == InitCross /\ [][NextCross]_vars

(* C27: a query returns a result only when the requested category is one   *)
(* of the categories of the verified token.                                  *)
C27_CategoryInToken ==
    resp.results => ArrayIncludes(resp.auth.categories, resp.category)

-----------------------------------------------------------------------------
(* Tokens without a stored row (SpecTok) *)

(* C28: a correctly signed, unexpired token for which consent_tokens holds  *)
(* no row of its subject is refused by requireConsentToken: the query ends   *)
(* at the token stage with 403 and no result, with TOKEN_NOT_FOUND unless    *)
(* the lookup itself failed.                                                 *)
C28_UnstoredTokenRejected ==
    (/\ Reached("token")
     /\ resp.auth.kind = "jwt"
     /\ resp.auth.sig
     /\ Unexpired(resp.auth)
     /\ StoredTokens(consentTokens, resp.auth) = {})
    => (/\ ~resp.results
        /\ resp.status = 403
        /\ resp.stages = <<"apiClient", "rateLimit", "token">>
        /\ resp.threw # "token" => resp.code = "TOKEN_NOT_FOUND")

(* The token minted by the dashboard action was presented and refused *)
C28_Witness ==
    /\ resp.code = "TOKEN_NOT_FOUND"
    /\ Unexpired(resp.auth)
    /\ \E x \in MintedByAction : x.jwt = resp.auth
    /\ StoredTokens(consentTokens, resp.auth) = {}

-----------------------------------------------------------------------------
(* The rate-limit buckets across one request (SpecQuery) *)

(* The sum of the requestCounts of the buckets *)
RECURSIVE Slots(_)
Slots(buckets) ==
    IF buckets = {} THEN 0
    ELSE LET b == CHOOSE x \in buckets : TRUE
         IN  b.requestCount + Slots(buckets \ {b})

(* The step is a request that got past the rate-limit check *)
PassedRateLimit == Len(resp'.stages) >= 3

(* The caller's bucket of the current window, and no other, is one higher *)
OneSlotConsumed ==
    /\ RequestCount("key1", WindowStart(now, Endpoint))'
          = RequestCount("key1", WindowStart(now, Endpoint)) + 1
    /\ Slots(rateLimitBuckets') = Slots(rateLimitBuckets) + 1

(* C29, as stated: a request rejected at the API key changes no bucket, and *)
(* a request that passes the rate-limit check has consumed exactly one slot  *)
(* of the caller's current window.                                           *)
C29_SlotPerPassedRequest ==
    [][resp'.stages # <<>> =>
          /\ Len(resp'.stages) = 1 => rateLimitBuckets' = rateLimitBuckets
          /\ PassedRateLimit => OneSlotConsumed]_vars

(* C29, amended: a request rejected at the API key or by the rate limit     *)
(* changes no bucket; a request that passes the rate-limit check has         *)
(* consumed exactly one slot of the caller's current window, whatever        *)
(* rejects it afterwards, unless a store operation of the check failed: then *)
(* it passed without a bucket being changed.                                 *)
C29_SlotPerCountedRequest ==
    [][resp'.stages # <<>> =>
          /\ Len(resp'.stages) <= 2 => rateLimitBuckets' = rateLimitBuckets
          /\ (PassedRateLimit /\ resp'.threw # "rateLimit") => OneSlotConsumed
          /\ (PassedRateLimit /\ resp'.threw = "rateLimit")
                => rateLimitBuckets' = rateLimitBuckets]_vars

(* A request was counted and then refused for its consent *)
C29_Witness ==
    /\ resp.code = "MISSING_CONSENT_POLICY"
    /\ resp.threw = "none"
    /\ RequestCount("key1", WindowStart(now, Endpoint)) = 1

====
